---- MODULE Spec2Model ----
(***************************************************************************)
(* Tool dispatch, discovery, execution and agent messaging of Chalice-CLI. *)
(*                                                                         *)
(*   SpecRegistry     : tools/base.py   ToolRegistry (register,            *)
(*                                      unregister, execute)               *)
(*   SpecRegistration : tools/base.py, mcp/client.py   registrations and   *)
(*                                      removals, with the calls recorded  *)
(*   SpecSchemas      : tools/base.py   get_openai_tools                   *)
(*   SpecConcurrent   : tools/base.py   one ToolRegistry, several threads  *)
(*   SpecEnumerate    : tools/base.py   one thread lists the registry      *)
(*                                      while another changes it           *)
(*   SpecDispatch     : tools/base.py, mcp/client.py   ToolRegistry.execute*)
(*                                      and MCPClient.call_tool side by    *)
(*                                      side                               *)
(*   SpecMcp          : mcp/client.py   MCPClient / MCPServer              *)
(*                                      (register_server, register_tool,   *)
(*                                      call_tool)                         *)
(*   SpecDiscovery    : mcp/client.py   search_tools, get_server_manifest, *)
(*                                      get_tool_definition                *)
(*   SpecFresh        : mcp/client.py   the same calls on one server, with *)
(*                                      the answers recorded               *)
(*   SpecExec         : tools/execution.py, mcp/servers/execution.py,      *)
(*                      tools/system.py one execution call and its child   *)
(*                                      process group                      *)
(*   SpecAgents       : agents/core/agent.py   AgentRegistry and           *)
(*                                      AgentCommunicator                  *)
(*   SpecPlugins      : plugins/core/manager.py   PluginManager (load,     *)
(*                                      enable, disable, unload, reload)   *)
(*   SpecScheduler    : workflows/engine.py   WorkflowEngine and the       *)
(*                                      thread of start_scheduler          *)
(*                                                                         *)
(* Python dicts are records with a `keys` field naming the keys that are   *)
(* present; the other fields hold the values (a default when absent).      *)
(* Strings built with f-strings are tuples of their parts.                 *)
(***************************************************************************)
EXTENDS Integers, Sequences, FiniteSets, TLC

VARIABLES
    tools,      \* ToolRegistry.tools: tool name -> Tool
    servers,    \* MCPClient.servers: server name -> MCPServer
    call,       \* the last dispatch: what ran, what came back
    pc,         \* position of the execution call
    req,        \* the execution request (tool, source or command, timeout)
    env,        \* platform of the call: os.name and what is on PATH
    deadline,   \* the timeout handed to communicate()/run()
    tempfile,   \* the temporary source file of the call
    leader,     \* the child process started by Popen
    desc,       \* a process the child forked
    events,     \* what the call did, in order
    result,     \* the dict the execution call returned
    log,        \* the calls so far, when a run records them
    answer,     \* the last discovery query and what it returned
    threads,    \* callers of one ToolRegistry: where each is and its locals
    agents,     \* AgentRegistry.agents: agent name -> Agent
    message_queue,  \* AgentCommunicator.message_queue
    exchange,   \* the last AgentCommunicator call and what it returned
    sent,       \* how many messages were enqueued so far
    delivered,  \* message number -> how often get_messages_for returned it
    tool_cache, \* MCPClient.tool_cache: key -> cached dict
    plugins,    \* PluginManager.plugins: plugin id -> state of the held Plugin
    hooks,      \* PluginManager.hooks: hook name -> handlers of the PluginHook
    returned,   \* the last PluginManager call and the bool it returned
    workflows,  \* WorkflowEngine.workflows: workflow id -> Workflow
    executions, \* WorkflowEngine.executions
    running,    \* WorkflowEngine.running
    jobs,       \* the jobs held by the schedule module: the workflow id of each
    loop,       \* where the scheduler thread is in _scheduler_loop
    due         \* the jobs the current run_pending() still has to run

execVars == <<pc, req, env, deadline, tempfile, leader, desc, events, result>>
commVars == <<agents, message_queue, exchange, sent, delivered>>
pluginVars == <<plugins, hooks, returned>>
workflowVars == <<workflows, executions, running, jobs, loop, due>>
vars     == <<tools, servers, call, pc, req, env, deadline, tempfile, leader,
              desc, events, result, log, answer, threads, agents, message_queue, exchange,
              sent, delivered, tool_cache, plugins, hooks, returned,
              workflows, executions, running, jobs, loop, due>>

(***************************************************************************)
(* Bounds                                                                  *)
(***************************************************************************)
MaxRequired == 2

MaxOps == 3

MaxSent == 3

MaxAsked == 2
MaxJobs == 3
MaxExecutions == 2

Range(s) == {s[i] : i \in 1..Len(s)}

(***************************************************************************)
(* Tools, arguments, exceptions                                            *)
(***************************************************************************)
ParamOrder == <<"code", "timeout", "input_data">>

\* the keys a caller may pass as **kwargs
ArgNames == {"code", "timeout", "verbose"}

ToolNames == {"python", "bash"}

\* schema["required"] of a tool: a list of parameter names
RequiredLists == {SubSeq(ParamOrder, 1, n) : n \in 0..MaxRequired}

\* A Tool / MCPTool object. `required` is parameters["required"]; `needs`,
\* `accepts` and `varkw` are the signature of its execute method: the
\* parameters without a default, all named parameters, and whether it takes
\* **kwargs (the signature the base classes declare).
MkTool(n, r, v) ==
    [name     |-> n,
     required |-> r,
     needs    |-> IF v THEN {} ELSE Range(r),
     accepts  |-> IF v THEN {} ELSE Range(ParamOrder),
     varkw    |-> v]

ToolObjects == {MkTool(n, r, v) : n \in ToolNames, r \in RequiredLists, v \in BOOLEAN}

NoTool == [name |-> "", required |-> <<>>, needs |-> {}, accepts |-> {}, varkw |-> FALSE]

\* exception classes a call can raise; all derive from Exception
ExcKinds == {"ValueError", "TypeError", "RuntimeError"}

ExceptionSubclasses == {"ValueError", "TypeError", "RuntimeError"}

Dict(ks, msg) == [keys |-> ks, error |-> msg]

NoResult == Dict({}, <<>>)

\* what a tool's execute body may hand back: a result dict or its own error dict
ToolReturns == {Dict({"success", "stdout"}, <<>>), Dict({"error"}, <<"tool failed">>)}

Returns(v) == [kind |-> "return", value |-> v, exc |-> "none"]
Raises(e)  == [kind |-> "raise", value |-> NoResult, exc |-> e]

\* what the body of execute does once it runs
BodyOutcomes == {Returns(v) : v \in ToolReturns} \cup {Raises(e) : e \in ExcKinds}

(***************************************************************************)
(* tools/base.py                                                           *)
(***************************************************************************)
\* Tool.validate_parameters: the first required parameter that is not in
\* kwargs raises ValueError
Tool_validate_parameters(tool, args) ==
    LET missing == {i \in 1..Len(tool.required) : tool.required[i] \notin args}
    IN  IF missing = {}
        THEN Returns(NoResult)
        ELSE LET first == CHOOSE i \in missing : \A j \in missing : i <= j
             IN  [kind |-> "raise", value |-> Dict({}, <<"Missing required parameter: ", tool.required[first]>>),
                  exc |-> "ValueError"]

\* Python's binding of **kwargs to the signature of execute: TypeError when
\* a parameter without default is missing or a key is not a parameter
Bind(tool, args) ==
    IF tool.needs \subseteq args /\ (tool.varkw \/ args \subseteq tool.accepts)
    THEN Returns(NoResult)
    ELSE [kind |-> "raise", value |-> Dict({}, <<"execute() got bad arguments">>), exc |-> "TypeError"]

ToolRegistry_get(tls, name) == IF name \in DOMAIN tls THEN tls[name] ELSE NoTool

\* `except Exception as e`
CatchesOnlyValueError(exc) == exc = "ValueError"
Catches(exc) == exc \in ExceptionSubclasses

\* the try block of a dispatch: the steps run in order until one raises
\* steps: validate (optional), bind, body
TryBlock(tool, args, outcome, validates) ==
    LET v == IF validates THEN Tool_validate_parameters(tool, args) ELSE Returns(NoResult)
        b == Bind(tool, args)
        pre == IF validates THEN <<"validate">> ELSE <<>>
    IN  IF v.kind = "raise" THEN [events |-> pre, out |-> v]
        ELSE IF b.kind = "raise" THEN [events |-> pre \o <<"call">>, out |-> b]
        ELSE [events |-> pre \o <<"call", "body">>, out |-> outcome]

\* the message of str(e)
StrOf(out) == IF out.value.error = <<>> THEN <<out.exc>> ELSE out.value.error

Handle(path, tool, name, args, t) ==
    [path     |-> path,
     seq      |-> 0,
     name     |-> name,
     args     |-> args,
     tool     |-> tool,
     server   |-> "",
     events   |-> t.events,
     returned |-> IF t.out.kind = "return" THEN t.out.value ELSE NoResult,
     raised   |-> IF t.out.kind = "raise" /\ ~Catches(t.out.exc) THEN t.out.exc ELSE "none",
     result   |-> IF t.out.kind = "return" THEN t.out.value
                  ELSE IF Catches(t.out.exc)
                       THEN Dict({"error"}, <<"Tool execution failed: ">> \o StrOf(t.out))
                       ELSE NoResult]

NotFound(path, name, args, msg) ==
    [path |-> path, seq |-> 0, name |-> name, args |-> args, tool |-> NoTool, server |-> "", events |-> <<>>,
     returned |-> NoResult, raised |-> "none", result |-> Dict({"error"}, msg)]

ExecuteWithoutLookupCheck(tls, name, args, outcome) ==
    Handle("registry", ToolRegistry_get(tls, name), name, args,
           TryBlock(ToolRegistry_get(tls, name), args, outcome, TRUE))

\* ToolRegistry.execute
ToolRegistry_execute(tls, name, args, outcome) ==
    LET tool == ToolRegistry_get(tls, name)
    IN  IF tool = NoTool
        THEN NotFound("registry", name, args, <<"Tool not found: ", name>>)
        ELSE Handle("registry", tool, name, args, TryBlock(tool, args, outcome, TRUE))

\* no dispatch yet
NoCall == [NotFound("none", "", {}, <<>>) EXCEPT !.result = NoResult]

\* ToolRegistry.register: self.tools[tool.name] = tool
RegisterKeepsFirst(tool) ==
    /\ tools' = [n \in DOMAIN tools \cup {tool.name} |->
                    IF n \in DOMAIN tools THEN tools[n] ELSE tool]
    /\ UNCHANGED <<servers, call, execVars, answer, threads, commVars, tool_cache, pluginVars, workflowVars>>

\* ToolRegistry.register: self.tools[tool.name] = tool. Whether the call is
\* written to log is decided where Next uses the action.
Register(tool) ==
    /\ tools' = [n \in DOMAIN tools \cup {tool.name} |-> IF n = tool.name THEN tool ELSE tools[n]]
    /\ UNCHANGED <<servers, call, execVars, answer, threads, commVars, tool_cache, pluginVars, workflowVars>>

\* ToolRegistry.unregister: if tool_name in self.tools: del self.tools[tool_name]
Unregister(name) ==
    /\ tools' = [n \in DOMAIN tools \ {name} |-> tools[n]]
    /\ UNCHANGED <<servers, call, execVars, answer, threads, commVars, tool_cache, pluginVars, workflowVars>>

ExecuteForgetsFailingTool(name, args, outcome) ==
    LET c == ToolRegistry_execute(tools, name, args, outcome)
    IN  /\ call' = [c EXCEPT !.seq = 1 - call.seq]
        /\ tools' = IF "error" \in c.result.keys
                     THEN [n \in DOMAIN tools \ {name} |-> tools[n]]
                     ELSE tools
        /\ UNCHANGED <<servers, execVars, log, answer, threads, commVars, tool_cache, pluginVars, workflowVars>>

\* ToolRegistry.execute is called
Execute(name, args, outcome) ==
    /\ call' = [ToolRegistry_execute(tools, name, args, outcome) EXCEPT !.seq = 1 - call.seq]
    /\ UNCHANGED <<tools, servers, execVars, log, answer, threads, commVars, tool_cache, pluginVars, workflowVars>>

(***************************************************************************)
(* mcp/client.py                                                           *)
(***************************************************************************)
ServerNames == {"execution", "filesystem"}

\* the tools the servers register: every one lists a required parameter
McpToolObjects == {t \in ToolObjects : Len(t.required) = 1}

\* MCPServer.__init__(name, description="")
MCPServer(name, description) == [name |-> name, description |-> description, tools |-> <<>>]

NoServer == [name |-> "", description |-> "", tools |-> <<>>]

MCPClient_get_server(srvs, name) == IF name \in DOMAIN srvs THEN srvs[name] ELSE NoServer

MCPServer_get_tool(server, name) ==
    IF name \in DOMAIN server.tools THEN server.tools[name] ELSE NoTool

CallToolWithOneNotFound(srvs, server_name, tool_name, args, outcome) ==
    LET tool == MCPServer_get_tool(MCPClient_get_server(srvs, server_name), tool_name)
    IN  IF tool = NoTool
        THEN NotFound("mcp", tool_name, args,
                      <<"Tool not found: ", tool_name, " on server ", server_name>>)
        ELSE Handle("mcp", tool, tool_name, args, TryBlock(tool, args, outcome, FALSE))

\* MCPClient.call_tool
MCPClient_call_tool(srvs, server_name, tool_name, args, outcome) ==
    LET server == MCPClient_get_server(srvs, server_name)
        tool   == MCPServer_get_tool(server, tool_name)
    IN  IF server = NoServer
        THEN NotFound("mcp", tool_name, args, <<"Server not found: ", server_name>>)
        ELSE IF tool = NoTool
        THEN NotFound("mcp", tool_name, args,
                      <<"Tool not found: ", tool_name, " on server ", server_name>>)
        ELSE Handle("mcp", tool, tool_name, args, TryBlock(tool, args, outcome, FALSE))

\* MCPClient.register_server
RegisterServer(server) ==
    /\ servers' = [n \in DOMAIN servers \cup {server.name} |->
                      IF n = server.name THEN server ELSE servers[n]]
    /\ UNCHANGED <<tools, call, execVars, answer, threads, commVars, tool_cache, pluginVars, workflowVars>>

\* MCPServer.register_tool on a server the client holds
RegisterTool(server_name, tool) ==
    /\ server_name \in DOMAIN servers
    /\ servers' = [servers EXCEPT ![server_name].tools =
                      [n \in DOMAIN @ \cup {tool.name} |-> IF n = tool.name THEN tool ELSE @[n]]]
    /\ UNCHANGED <<tools, call, execVars, answer, threads, commVars, tool_cache, pluginVars, workflowVars>>

CallTool(server_name, tool_name, args, outcome) ==
    /\ call' = [MCPClient_call_tool(servers, server_name, tool_name, args, outcome)
                   EXCEPT !.seq = 1 - call.seq, !.server = server_name]
    /\ UNCHANGED <<tools, servers, execVars, log, answer, threads, commVars, tool_cache, pluginVars, workflowVars>>

(***************************************************************************)
(* Execution requests                                                      *)
(***************************************************************************)
MaxTokens == 3

TimeoutSpread == 1

MIN_TIMEOUT == 1

MAX_TIMEOUT == 300

DEFAULT_TIMEOUT == 30

\* A command line is a list of space-free words joined by single spaces.
Words == {"rm", "-rf", "/", "ls", "ls;rm"}

Chars ==
    ("rm" :> <<"r", "m">>) @@ ("-rf" :> <<"-", "r", "f">>) @@ ("/" :> <<"/">>) @@
    ("ls" :> <<"l", "s">>) @@ ("ls;rm" :> <<"l", "s", ";", "r", "m">>)

Commands == UNION {[1..n -> Words] : n \in 1..MaxTokens}

\* the characters of the command string
RECURSIVE Flatten(_)
Flatten(cmd) ==
    IF Len(cmd) = 0 THEN <<>>
    ELSE IF Len(cmd) = 1 THEN Chars[cmd[1]]
    ELSE Chars[cmd[1]] \o <<" ">> \o Flatten(Tail(cmd))

\* Python's `needle in hay` on strings
Contains(hay, needle) ==
    \E i \in 1..(Len(hay) - Len(needle) + 1) : SubSeq(hay, i, i + Len(needle) - 1) = needle

RequestedTimeouts ==
    ((MIN_TIMEOUT - 1 - TimeoutSpread)..MIN_TIMEOUT) \cup {DEFAULT_TIMEOUT}
        \cup (MAX_TIMEOUT..(MAX_TIMEOUT + TimeoutSpread))

ScriptTools == {"PythonExecutor", "JavaScriptExecutor", "PythonExecutionTool",
                "JavaScriptExecutionTool"}

ShellTools == {"BashExecutor", "BashExecutionTool"}

GuestTools == ScriptTools \cup ShellTools

\* code_ok: the source text can be written to the temporary file (it is a
\* str and encodable); the dispatchers do not check the type of `code`
Requests ==
    {[tool |-> t, command |-> <<>>, code_ok |-> b, timeout |-> n] :
        t \in ScriptTools, b \in BOOLEAN, n \in RequestedTimeouts}
    \cup {[tool |-> t, command |-> c, code_ok |-> TRUE, timeout |-> n] :
        t \in ShellTools \cup {"SystemCommand"}, c \in Commands, n \in RequestedTimeouts}

NoRequest == [tool |-> "none", command |-> <<>>, code_ok |-> TRUE, timeout |-> 0]

\* os.name, and whether the interpreter / command / working directory the
\* call needs can be found
Environments == [os_name : {"posix", "nt"}, resolvable : BOOLEAN]

(***************************************************************************)
(* Result dicts of the execution tools                                     *)
(***************************************************************************)
NoExecResult ==
    [keys |-> {}, success |-> FALSE, return_code |-> 0, timeout |-> FALSE,
     blocked |-> FALSE, error |-> <<>>, reported |-> 0]

\* {"success", "stdout", "stderr", "return_code", "timeout": False}
Completed(rc) ==
    [NoExecResult EXCEPT !.keys = {"success", "stdout", "stderr", "return_code", "timeout"},
                         !.success = (rc = 0), !.return_code = rc]

\* {"success": False, ..., "stderr": f"... timed out after {timeout} seconds",
\*  "return_code": -1, "timeout": True}; reported is the {timeout} of the text
TimedOut(t) ==
    [NoExecResult EXCEPT !.keys = {"success", "stdout", "stderr", "return_code", "timeout"},
                         !.return_code = -1, !.timeout = TRUE, !.reported = t]

\* {"error": msg}
ErrorDict(msg) == [NoExecResult EXCEPT !.keys = {"error"}, !.error = msg]

\* {"error": msg, "blocked": True}
BlockedDict(msg) ==
    [NoExecResult EXCEPT !.keys = {"error", "blocked"}, !.error = msg, !.blocked = TRUE]

DangerMsg == <<"Dangerous command blocked for safety">>

(***************************************************************************)
(* The part of execute that runs before the wait on the child              *)
(***************************************************************************)
Min(a, b) == IF a < b THEN a ELSE b
Max(a, b) == IF a > b THEN a ELSE b

ClampUpperOnly(timeout) == Min(timeout, MAX_TIMEOUT)

\* timeout = min(max(timeout, 1), 300)
Clamp(timeout) == Min(Max(timeout, MIN_TIMEOUT), MAX_TIMEOUT)

\* dangerous = ['rm -rf /', 'mkfs', 'dd if=', ':(){:|:&};:', 'chmod -R 777 /']
dangerous ==
    {<<"r", "m", " ", "-", "r", "f", " ", "/">>,
     <<"m", "k", "f", "s">>,
     <<"d", "d", " ", "i", "f", "=">>,
     <<":", "(", ")", "{", ":", "|", ":", "&", "}", ";", ":">>,
     <<"c", "h", "m", "o", "d", " ", "-", "R", " ", "7", "7", "7", " ", "/">>}

IsDangerousAtStart(command) ==
    \E danger \in dangerous :
       /\ Len(danger) <= Len(Flatten(command))
       /\ SubSeq(Flatten(command), 1, Len(danger)) = danger

\* any(danger in command for danger in dangerous)
IsDangerous(command) == \E danger \in dangerous : Contains(Flatten(command), danger)

SAFE_COMMANDS ==
    {"ls", "pwd", "whoami", "date", "echo", "cat", "head", "tail",
     "grep", "find", "wc", "sort", "uniq", "diff", "which",
     "pip", "npm", "node", "python", "python3", "git",
     "docker", "kubectl", "make", "cargo", "go", "rustc",
     "java", "javac", "gcc", "g++", "clang",
     "curl", "wget", "ping", "traceroute", "netstat",
     "ps", "top", "df", "du", "free", "uptime"}

DANGEROUS_COMMANDS ==
    {"rm", "rmdir", "del", "format", "mkfs", "dd",
     "chmod", "chown", "kill", "killall", "shutdown",
     "reboot", "init", "systemctl", "service"}

\* what the code before the wait leaves behind: where the call goes next,
\* the dict it returns (if it returns), the timeout it will wait with, the
\* temporary file, and what it did
Plan(next, res, t, file, evs) ==
    [next |-> next, result |-> res, deadline |-> t, tempfile |-> file, events |-> evs]

PythonExecutor_spawns_before_writing(r, e) ==
    IF ~e.resolvable
    THEN Plan("returned", ErrorDict(<<"No such file or directory: 'python3'">>),
              Clamp(r.timeout), "none", <<>>)
    ELSE IF ~r.code_ok
    THEN Plan("returned", ErrorDict(<<"write() failed">>), Clamp(r.timeout), "exists",
              <<"spawn", "tempfile">>)
    ELSE Plan("communicate", NoExecResult, Clamp(r.timeout), "exists", <<"spawn", "tempfile">>)

\* PythonExecutor.execute up to process.communicate
PythonExecutor_execute(r, e) ==
    LET timeout == Clamp(r.timeout)
    IN  IF ~r.code_ok
        THEN \* f.write(code) raises inside the `with`, before the try/finally
             Plan("returned", ErrorDict(<<"write() failed">>), timeout, "exists", <<"tempfile">>)
        ELSE IF ~e.resolvable
        THEN \* Popen raises FileNotFoundError; the finally unlinks
             Plan("returned", ErrorDict(<<"No such file or directory: 'python3'">>), timeout,
                  "deleted", <<"tempfile", "unlink">>)
        ELSE Plan("communicate", NoExecResult, timeout, "exists", <<"tempfile", "spawn">>)

\* PythonExecutionTool.execute up to process.communicate
PythonExecutionTool_execute(r, e) ==
    LET timeout == Clamp(r.timeout)
    IN  IF ~r.code_ok
        THEN Plan("returned", ErrorDict(<<"write() failed">>), timeout, "exists", <<"tempfile">>)
        ELSE IF ~e.resolvable
        THEN Plan("returned", ErrorDict(<<"No such file or directory: 'python3'">>), timeout,
                  "deleted", <<"tempfile", "unlink">>)
        ELSE Plan("communicate", NoExecResult, timeout, "exists", <<"tempfile", "spawn">>)

\* JavaScriptExecutor.execute up to process.communicate
JavaScriptExecutor_execute(r, e) ==
    IF ~e.resolvable
    THEN \* `which node` returned non-zero
         Plan("returned", ErrorDict(<<"Node.js is not installed">>), 0, "none", <<"which">>)
    ELSE LET timeout == Clamp(r.timeout)
         IN  IF ~r.code_ok
             THEN Plan("returned", ErrorDict(<<"write() failed">>), timeout, "exists",
                       <<"which", "tempfile">>)
             ELSE Plan("communicate", NoExecResult, timeout, "exists",
                       <<"which", "tempfile", "spawn">>)

\* JavaScriptExecutionTool.execute up to process.communicate
JavaScriptExecutionTool_execute(r, e) ==
    IF ~e.resolvable
    THEN Plan("returned", ErrorDict(<<"Node.js is not installed">>), 0, "none", <<"which">>)
    ELSE LET timeout == Clamp(r.timeout)
         IN  IF ~r.code_ok
             THEN Plan("returned", ErrorDict(<<"write() failed">>), timeout, "exists",
                       <<"which", "tempfile">>)
             ELSE Plan("communicate", NoExecResult, timeout, "exists",
                       <<"which", "tempfile", "spawn">>)

BashExecutor_spawns_first(r, e) ==
    IF IsDangerous(r.command)
    THEN Plan("returned", ErrorDict(DangerMsg), 0, "none", <<"spawn">>)
    ELSE IF ~e.resolvable
         THEN Plan("returned", ErrorDict(<<"No such file or directory">>), Clamp(r.timeout),
                   "none", <<>>)
         ELSE Plan("communicate", NoExecResult, Clamp(r.timeout), "none", <<"spawn">>)

\* BashExecutor.execute up to process.communicate
BashExecutor_execute(r, e) ==
    IF IsDangerous(r.command)
    THEN Plan("returned", ErrorDict(DangerMsg), 0, "none", <<>>)
    ELSE LET timeout == Clamp(r.timeout)
         IN  IF ~e.resolvable
             THEN \* Popen raises: cwd=working_dir does not exist
                  Plan("returned", ErrorDict(<<"No such file or directory">>), timeout,
                       "none", <<>>)
             ELSE Plan("communicate", NoExecResult, timeout, "none", <<"spawn">>)

\* BashExecutionTool.execute up to process.communicate
BashExecutionTool_execute(r, e) ==
    IF IsDangerous(r.command)
    THEN Plan("returned", BlockedDict(DangerMsg), 0, "none", <<>>)
    ELSE LET timeout == Clamp(r.timeout)
         IN  IF ~e.resolvable
             THEN Plan("returned", ErrorDict(<<"No such file or directory">>), timeout,
                       "none", <<>>)
             ELSE Plan("communicate", NoExecResult, timeout, "none", <<"spawn">>)

\* the characters str.split() separates words at
Whitespace == {" ", "\t", "\n"}

\* str.split()[0]: the characters from the first one that is not whitespace
\* up to the next whitespace
FirstWord(str) ==
    LET solid == {i \in 1..Len(str) : str[i] \notin Whitespace}
        from  == CHOOSE i \in solid : \A j \in solid : i <= j
        gaps  == {i \in from..Len(str) : str[i] \in Whitespace}
        upto  == IF gaps = {} THEN Len(str)
                 ELSE (CHOOSE i \in gaps : \A j \in gaps : i <= j) - 1
    IN  SubSeq(str, from, upto)

\* the word that is spelled with these characters
Spelled(str) == CHOOSE w \in Words : Chars[w] = str

\* cmd_name = command.split()[0] if ' ' in command else command
SystemCommand_cmd_name(command) ==
    IF Contains(command, <<" ">>) THEN Spelled(FirstWord(command)) ELSE Spelled(command)

SystemCommand_without_deny_check(r, e) ==
    LET cmd_name == SystemCommand_cmd_name(Flatten(r.command))
    IN  IF cmd_name \notin SAFE_COMMANDS /\ ~e.resolvable
        THEN Plan("returned", ErrorDict(<<"Command not found: ", cmd_name>>), 0, "none", <<>>)
        ELSE IF ~e.resolvable \/ Len(r.command) > 1
        THEN Plan("returned", ErrorDict(<<"No such file or directory">>),
                  Min(r.timeout, MAX_TIMEOUT), "none", <<>>)
        ELSE Plan("communicate", NoExecResult, Min(r.timeout, MAX_TIMEOUT), "none", <<"spawn">>)

\* SystemCommand.execute up to the wait inside subprocess.run.
\* cmd = [command]: the whole string is argv[0], so the spawn finds an
\* executable only for a command without spaces.
SystemCommand_execute(r, e) ==
    LET cmd_name == SystemCommand_cmd_name(Flatten(r.command))
    IN  IF cmd_name \in DANGEROUS_COMMANDS
        THEN Plan("returned",
                  BlockedDict(<<"Command '", cmd_name, "' is blacklisted for safety">>),
                  0, "none", <<>>)
        ELSE IF cmd_name \notin SAFE_COMMANDS /\ ~e.resolvable
        THEN Plan("returned", ErrorDict(<<"Command not found: ", cmd_name>>), 0, "none", <<>>)
        ELSE IF ~e.resolvable \/ Len(r.command) > 1
        THEN Plan("returned", ErrorDict(<<"No such file or directory">>),
                  Min(r.timeout, MAX_TIMEOUT), "none", <<>>)
        ELSE Plan("communicate", NoExecResult, Min(r.timeout, MAX_TIMEOUT), "none", <<"spawn">>)

Start(r, e) ==
    CASE r.tool = "PythonExecutor"          -> PythonExecutor_execute(r, e)
      [] r.tool = "PythonExecutionTool"     -> PythonExecutionTool_execute(r, e)
      [] r.tool = "JavaScriptExecutor"      -> JavaScriptExecutor_execute(r, e)
      [] r.tool = "JavaScriptExecutionTool" -> JavaScriptExecutionTool_execute(r, e)
      [] r.tool = "BashExecutor"            -> BashExecutor_execute(r, e)
      [] r.tool = "BashExecutionTool"       -> BashExecutionTool_execute(r, e)
      [] r.tool = "SystemCommand"           -> SystemCommand_execute(r, e)

(***************************************************************************)
(* The call and its child process group                                    *)
(***************************************************************************)
NoProcess == [st |-> "none", rc |-> 0]

SIGTERM == 15

SIGKILL == 9

ExecIdle ==
    /\ pc = "idle"
    /\ req = NoRequest
    /\ env = [os_name |-> "posix", resolvable |-> TRUE]
    /\ deadline = 0
    /\ tempfile = "none"
    /\ leader = NoProcess
    /\ desc = "none"
    /\ events = <<>>
    /\ result = NoExecResult

\* execute(...) is called: everything up to the wait on the child, or up
\* to the return when the call ends before that
Call(r, e) ==
    /\ pc = "idle"
    /\ LET p == Start(r, e)
           spawned == \E i \in 1..Len(p.events) : p.events[i] = "spawn"
       IN  /\ pc' = p.next
           /\ result' = p.result
           /\ deadline' = p.deadline
           /\ tempfile' = p.tempfile
           /\ events' = p.events
           /\ leader' = IF spawned THEN [st |-> "running", rc |-> 0] ELSE NoProcess
    /\ req' = r
    /\ env' = e
    /\ UNCHANGED <<desc, tools, servers, call,
                   log, answer, threads, commVars, tool_cache, pluginVars, workflowVars>>

\* a caller invokes one of the execution tools
Invoke == pc = "idle" /\ \E r \in Requests, e \in Environments : Call(r, e)

\* the guest forks a process of its own
ChildForks ==
    /\ leader.st = "running"
    /\ desc = "none"
    /\ desc' = "alive"
    /\ UNCHANGED <<pc, req, env, deadline, tempfile, leader, events, result, tools, servers, call,
                   log, answer, threads, commVars, tool_cache, pluginVars, workflowVars>>

\* the guest program ends by itself
LeaderExits(rc) ==
    /\ leader.st = "running"
    /\ leader' = [st |-> "exited", rc |-> rc]
    /\ UNCHANGED <<pc, req, env, deadline, tempfile, desc, events, result, tools, servers, call,
                   log, answer, threads, commVars, tool_cache, pluginVars, workflowVars>>

DescExits ==
    /\ desc = "alive"
    /\ desc' = "dead"
    /\ UNCHANGED <<pc, req, env, deadline, tempfile, leader, events, result, tools, servers, call,
                   log, answer, threads, commVars, tool_cache, pluginVars, workflowVars>>

\* the finally of the scripting tools: os.unlink(temp_file)
Finally(file) == IF req.tool \in ScriptTools THEN "deleted" ELSE file

FinallyEvents == IF req.tool \in ScriptTools THEN <<"unlink">> ELSE <<>>

\* communicate() returns: the child exited and its pipes are at end of
\* file. holds_pipe: a forked process still has the inherited stdout or
\* stderr open. decodable: what the guest wrote is valid text in the
\* locale's encoding; the pipes are opened with text=True, so communicate()
\* reaps the child, then decodes, and a UnicodeDecodeError lands in the
\* outer `except Exception`.
CommunicateReturns(holds_pipe, decodable) ==
    /\ pc = "communicate"
    /\ deadline >= 1
    /\ leader.st = "exited"
    /\ ~(desc = "alive" /\ holds_pipe)
    /\ leader' = [leader EXCEPT !.st = "reaped"]
    /\ result' = IF ~decodable
                 THEN ErrorDict(<<"'utf-8' codec can't decode byte">>)
                 ELSE IF req.tool = "SystemCommand"
                 THEN [Completed(leader.rc) EXCEPT
                          !.keys = {"success", "stdout", "stderr", "return_code", "command"}]
                 ELSE Completed(leader.rc)
    /\ tempfile' = Finally(tempfile)
    /\ events' = events \o <<"reap">> \o FinallyEvents
    /\ pc' = "returned"
    /\ UNCHANGED <<req, env, deadline, desc, tools, servers, call,
                   log, answer, threads, commVars, tool_cache, pluginVars, workflowVars>>

\* What a signal does to the child. forced: it cannot be ignored (SIGKILL,
\* TerminateProcess); ignores: the guest program ignores SIGTERM.
LeaderAfter(sig, forced, ignores) ==
    IF leader.st = "running" /\ (forced \/ ~ignores)
    THEN [st |-> "exited", rc |-> 0 - sig]
    ELSE leader

\* What a signal does to a process the child forked. whole_group: the
\* signal went to the process group (os.killpg) and not to the child alone
\* (process.terminate(), process.kill()); in_group: the forked process is
\* still in that group; ignores: it ignores SIGTERM.
DescAfter(whole_group, in_group, ignores) ==
    IF desc = "alive" /\ whole_group /\ in_group /\ ~ignores THEN "dead" ELSE desc

\* subprocess.TimeoutExpired: the handler signals and goes on to
\* process.wait(). How the guest reacts is the guest's choice: the child
\* may ignore SIGTERM, a forked process may ignore it or have left the group.
DeadlineExpires(ignores, desc_in_group, desc_ignores) ==
    /\ pc = "communicate"
    /\ IF req.tool = "SystemCommand"
       THEN \* subprocess.run: process.kill()
            /\ leader' = LeaderAfter(SIGKILL, TRUE, ignores)
            /\ desc' = DescAfter(FALSE, desc_in_group, desc_ignores)
       ELSE IF env.os_name /= "nt"
       THEN \* os.killpg(os.getpgid(process.pid), signal.SIGTERM)
            /\ leader' = LeaderAfter(SIGTERM, FALSE, ignores)
            /\ desc' = DescAfter(TRUE, desc_in_group, desc_ignores)
       ELSE \* process.terminate(): TerminateProcess on the child alone
            /\ leader' = LeaderAfter(SIGTERM, TRUE, ignores)
            /\ desc' = DescAfter(FALSE, desc_in_group, desc_ignores)
    /\ events' = events \o <<"signal">>
    /\ pc' = "wait"
    /\ UNCHANGED <<req, env, deadline, tempfile, result, tools, servers, call,
                   log, answer, threads, commVars, tool_cache, pluginVars, workflowVars>>

\* process.wait() returns once the child itself has exited
WaitReturns ==
    /\ pc = "wait"
    /\ leader.st = "exited"
    /\ leader' = [leader EXCEPT !.st = "reaped"]
    /\ result' = IF req.tool = "SystemCommand"
                 THEN \* except subprocess.TimeoutExpired: the raw timeout in the text
                      [ErrorDict(<<"Command timed out">>) EXCEPT !.reported = req.timeout]
                 ELSE TimedOut(deadline)
    /\ tempfile' = Finally(tempfile)
    /\ events' = events \o <<"reap">> \o FinallyEvents
    /\ pc' = "returned"
    /\ UNCHANGED <<req, env, deadline, desc, tools, servers, call,
                   log, answer, threads, commVars, tool_cache, pluginVars, workflowVars>>

(***************************************************************************)
(* mcp/client.py: discovery (search_tools, get_server_manifest,            *)
(* get_tool_definition)                                                    *)
(***************************************************************************)
\* the characters of the strings that are searched or searched for
Text ==
    ("" :> <<>>) @@
    ("python" :> <<"p", "y", "t", "h", "o", "n">>) @@
    ("bash" :> <<"b", "a", "s", "h">>) @@
    ("Run Code" :> <<"R", "u", "n", " ", "C", "o", "d", "e">>) @@
    ("Execute bash" :> <<"E", "x", "e", "c", "u", "t", "e", " ", "b", "a", "s", "h">>) @@
    ("PY" :> <<"P", "Y">>) @@
    ("code" :> <<"c", "o", "d", "e">>) @@
    ("git" :> <<"g", "i", "t">>)

\* the cased letters str.lower() changes
ToLower ==
    ("A" :> "a") @@ ("B" :> "b") @@ ("C" :> "c") @@ ("D" :> "d") @@ ("E" :> "e") @@ ("F" :> "f") @@
    ("G" :> "g") @@ ("H" :> "h") @@ ("I" :> "i") @@ ("J" :> "j") @@ ("K" :> "k") @@ ("L" :> "l") @@
    ("M" :> "m") @@ ("N" :> "n") @@ ("O" :> "o") @@ ("P" :> "p") @@ ("Q" :> "q") @@ ("R" :> "r") @@
    ("S" :> "s") @@ ("T" :> "t") @@ ("U" :> "u") @@ ("V" :> "v") @@ ("W" :> "w") @@ ("X" :> "x") @@
    ("Y" :> "y") @@ ("Z" :> "z")

\* str.lower()
Lower(str) == [i \in 1..Len(str) |-> IF str[i] \in DOMAIN ToLower THEN ToLower[str[i]] ELSE str[i]]

\* MCPTool.description, set by the tool class's __init__
Descriptions == ("python" :> "Run Code") @@ ("bash" :> "Execute bash") @@ ("" :> "")

Tool_description(tool) == Descriptions[tool.name]

\* get_parameters(): the JSON schema of the tool
Tool_get_parameters(tool) ==
    [type |-> "object", properties |-> Range(ParamOrder), required |-> tool.required]

NoSchema == [type |-> "", properties |-> {}, required |-> <<>>]

\* getattr(tool, 'return_type', 'Any')
Tool_return_type(tool) == "Any"

ServerDescriptions == {"", "Code execution"}

\* the tools the discovery calls are tried on: their schemas differ in
\* `required`
DiscoveryTools == {t \in ToolObjects : ~t.varkw /\ Len(t.required) <= 1}

Queries == {"", "PY", "code", "bash", "git"}

\* server_name=None is the empty string: both are falsy in `if server_name`
ServerFilters == {""} \cup ServerNames

DetailLevels == {"name_only", "name_and_description", "full"}

\* what a caller may pass as detail_level: the documented values, and the
\* name of a level written in another convention
RequestedLevels == DetailLevels \cup {"nameOnly"}

\* the elements of a dict in iteration order; the order itself is not modelled
RECURSIVE Ordered(_)
Ordered(S) ==
    IF S = {} THEN <<>>
    ELSE LET x == CHOOSE y \in S : TRUE IN <<x>> \o Ordered(S \ {x})

RECURSIVE Concat(_)
Concat(seqs) == IF seqs = <<>> THEN <<>> ELSE Head(seqs) \o Concat(Tail(seqs))

\* an entry of a result list or of a manifest: a dict with the keys `keys`
Entry(ks, server, tool, name, description, parameters) ==
    [keys |-> ks, server |-> server, tool |-> tool, name |-> name,
     description |-> description, parameters |-> parameters,
     returns |-> IF "returns" \in ks THEN "Any" ELSE ""]

\* the dict search_tools appends for a matching tool
SearchResult(server, tool_name, tool, detail_level) ==
    IF detail_level = "name_only"
    THEN Entry({"server", "tool"}, server.name, tool_name, "", "", NoSchema)
    ELSE IF detail_level = "name_and_description"
    THEN Entry({"server", "tool", "description"}, server.name, tool_name, "",
               Tool_description(tool), NoSchema)
    ELSE Entry({"server", "tool", "description", "parameters", "returns"}, server.name,
               tool_name, "", Tool_description(tool), Tool_get_parameters(tool))

\* query.lower() in tool_name.lower() or query.lower() in tool.description.lower()
SearchMatches(query, tool_name, tool) ==
    \/ Contains(Lower(Text[tool_name]), Lower(Text[query]))
    \/ Contains(Lower(Text[Tool_description(tool)]), Lower(Text[query]))

\* what a discovery call hands back: a list, a dict, or an exception
Answer(kind, server, tool, query, level, raised, list, dict) ==
    [kind |-> kind, seq |-> 0, server |-> server, tool |-> tool, query |-> query,
     level |-> level, raised |-> raised, list |-> list, dict |-> dict]

NoDict == [keys |-> {}, error |-> <<>>, name |-> "", description |-> "", tools |-> <<>>,
           parameters |-> NoSchema, returns |-> "", server |-> ""]

NoAnswer == Answer("none", "", "", "", "", "none", <<>>, NoDict)

\* MCPClient.search_tools
MCPClient_search_tools(srvs, query, server_name, detail_level) ==
    IF server_name /= "" /\ server_name \notin DOMAIN srvs
    THEN \* self.servers[server_name]
         Answer("search", server_name, "", query, detail_level, "KeyError", <<>>, NoDict)
    ELSE LET servers_to_search ==
                 IF server_name /= "" THEN <<srvs[server_name]>>
                 ELSE [i \in 1..Cardinality(DOMAIN srvs) |-> srvs[Ordered(DOMAIN srvs)[i]]]
             OfServer(server) ==
                 LET names == Ordered(DOMAIN server.tools)
                     hits  == SelectSeq(names,
                                        LAMBDA n : SearchMatches(query, n, server.tools[n]))
                 IN  [i \in 1..Len(hits) |->
                         SearchResult(server, hits[i], server.tools[hits[i]], detail_level)]
             results == Concat([i \in 1..Len(servers_to_search) |->
                                   OfServer(servers_to_search[i])])
         IN  Answer("search", server_name, "", query, detail_level, "none", results, NoDict)

ManifestWithSchemas(srvs, server_name) ==
    LET server == MCPClient_get_server(srvs, server_name)
        names  == Ordered(DOMAIN server.tools)
    IN  IF server = NoServer
        THEN [NoDict EXCEPT !.keys = {"error"}, !.error = <<"Server not found: ", server_name>>]
        ELSE [NoDict EXCEPT
                 !.keys = {"name", "description", "tools"},
                 !.name = server.name,
                 !.description = server.description,
                 !.tools = [i \in 1..Len(names) |->
                               Entry({"name", "description", "parameters"}, "", "", names[i],
                                     Tool_description(server.tools[names[i]]),
                                     Tool_get_parameters(server.tools[names[i]]))]]

\* MCPClient.get_server_manifest
MCPClient_get_server_manifest(srvs, server_name) ==
    LET server == MCPClient_get_server(srvs, server_name)
        names  == Ordered(DOMAIN server.tools)
    IN  IF server = NoServer
        THEN [NoDict EXCEPT !.keys = {"error"}, !.error = <<"Server not found: ", server_name>>]
        ELSE [NoDict EXCEPT
                 !.keys = {"name", "description", "tools"},
                 !.name = server.name,
                 !.description = server.description,
                 !.tools = [i \in 1..Len(names) |->
                               Entry({"name", "description"}, "", "", names[i],
                                     Tool_description(server.tools[names[i]]), NoSchema)]]

\* MCPClient.get_tool_definition
MCPClient_get_tool_definition(srvs, server_name, tool_name) ==
    LET server == MCPClient_get_server(srvs, server_name)
        tool   == MCPServer_get_tool(server, tool_name)
    IN  IF server = NoServer
        THEN [NoDict EXCEPT !.keys = {"error"}, !.error = <<"Server not found: ", server_name>>]
        ELSE IF tool = NoTool
        THEN [NoDict EXCEPT !.keys = {"error"}, !.error = <<"Tool not found: ", tool_name>>]
        ELSE [NoDict EXCEPT
                 !.keys = {"name", "description", "parameters", "returns", "server"},
                 !.name = tool_name,
                 !.description = Tool_description(tool),
                 !.parameters = Tool_get_parameters(tool),
                 !.returns = Tool_return_type(tool),
                 !.server = server_name]

(***************************************************************************)
(* tools/base.py: schemas in OpenAI function-calling format                *)
(***************************************************************************)
OpenAIFormatWithoutRequired(tool) ==
    [type     |-> "function",
     function |-> [name        |-> tool.name,
                   description |-> Tool_description(tool),
                   parameters  |-> [Tool_get_parameters(tool) EXCEPT !.required = <<>>]]]

\* Tool.to_openai_format; self.parameters is get_parameters() as of __init__
Tool_to_openai_format(tool) ==
    [type     |-> "function",
     function |-> [name        |-> tool.name,
                   description |-> Tool_description(tool),
                   parameters  |-> Tool_get_parameters(tool)]]

\* ToolRegistry.get_openai_tools
ToolRegistry_get_openai_tools(tls) ==
    [i \in 1..Cardinality(DOMAIN tls) |-> Tool_to_openai_format(tls[Ordered(DOMAIN tls)[i]])]

GetOpenAITools ==
    /\ answer' = [Answer("openai", "", "", "", "", "none",
                         ToolRegistry_get_openai_tools(tools), NoDict)
                     EXCEPT !.seq = 1 - answer.seq]
    /\ UNCHANGED <<tools, servers, call, execVars, threads, commVars, tool_cache, pluginVars, workflowVars>>

SearchTools(query, server_name, detail_level) ==
    /\ answer' = [MCPClient_search_tools(servers, query, server_name, detail_level)
                     EXCEPT !.seq = 1 - answer.seq]
    /\ UNCHANGED <<tools, servers, call, execVars, threads, commVars, tool_cache, pluginVars, workflowVars>>

GetServerManifest(server_name) ==
    /\ answer' = [Answer("manifest", server_name, "", "", "", "none", <<>>,
                         MCPClient_get_server_manifest(servers, server_name))
                     EXCEPT !.seq = 1 - answer.seq]
    /\ UNCHANGED <<tools, servers, call, execVars, threads, commVars, tool_cache, pluginVars, workflowVars>>

GetToolDefinitionCached(server_name, tool_name) ==
    LET key == <<server_name, tool_name>>
        d   == IF key \in DOMAIN tool_cache THEN tool_cache[key]
               ELSE MCPClient_get_tool_definition(servers, server_name, tool_name)
    IN  /\ answer' = [Answer("definition", server_name, tool_name, "", "", "none", <<>>, d)
                          EXCEPT !.seq = 1 - answer.seq]
        /\ tool_cache' = [k \in DOMAIN tool_cache \cup {key} |->
                             IF k = key THEN d ELSE tool_cache[k]]
        /\ UNCHANGED <<tools, servers, call, execVars, threads, commVars, pluginVars,
                       workflowVars>>

\* MCPClient.get_tool_definition is called. Whether the answer is written to
\* log is decided where Next uses the action.
GetToolDefinition(server_name, tool_name) ==
    /\ answer' = [Answer("definition", server_name, tool_name, "", "", "none", <<>>,
                         MCPClient_get_tool_definition(servers, server_name, tool_name))
                     EXCEPT !.seq = 1 - answer.seq]
    /\ UNCHANGED <<tools, servers, call, execVars, threads, commVars, tool_cache, pluginVars, workflowVars>>

(***************************************************************************)
(* tools/base.py: one ToolRegistry used by several threads. A step is what *)
(* the interpreter does without letting another thread run: one dict       *)
(* lookup, store, membership test or del. Nothing in ToolRegistry takes a  *)
(* lock.                                                                   *)
(***************************************************************************)
Callers == {"main", "scheduler"}

\* the tools that are loaded and unloaded while dispatches run
ReloadedTools == {t \in ToolObjects : Len(t.required) = 1}

CallerArgs == {{}, {"code"}}

\* a thread outside the registry
Outside ==
    [pc |-> "idle", name |-> "", args |-> {}, tool |-> NoTool, call |-> NoCall, raised |-> "none",
     snapshot |-> {}, seen |-> {}, listing |-> <<>>, from |-> 0, upto |-> 0]

\* register(tool): self.tools[tool.name] = tool, one store. Whether the new
\* map is written to log is decided where Next uses the action.
T_Register(t, tool) ==
    /\ threads[t].pc = "idle"
    /\ tools' = [n \in DOMAIN tools \cup {tool.name} |-> IF n = tool.name THEN tool ELSE tools[n]]
    /\ UNCHANGED <<threads, servers, call, execVars, answer, commVars, tool_cache, pluginVars, workflowVars>>

\* unregister(name): `if tool_name in self.tools` found the name
T_UnregisterTest(t, name) ==
    /\ threads[t].pc = "idle"
    /\ name \in DOMAIN tools
    /\ threads' = [threads EXCEPT ![t] = [Outside EXCEPT !.pc = "del", !.name = name]]
    /\ UNCHANGED <<tools, servers, call, execVars, log, answer, commVars, tool_cache, pluginVars, workflowVars>>

\* unregister(name): `del self.tools[tool_name]`, KeyError when the key is
\* gone by now
T_UnregisterDel(t) ==
    /\ threads[t].pc = "del"
    /\ IF threads[t].name \in DOMAIN tools
       THEN /\ tools' = [n \in DOMAIN tools \ {threads[t].name} |-> tools[n]]
            /\ threads' = [threads EXCEPT ![t] = [@ EXCEPT !.pc = "returned"]]
       ELSE /\ tools' = tools
            /\ threads' = [threads EXCEPT ![t] = [@ EXCEPT !.pc = "raised", !.raised = "KeyError"]]
    /\ UNCHANGED <<servers, call, execVars, answer, commVars, tool_cache, pluginVars, workflowVars>>

\* execute(name, **kwargs): tool = self.get(tool_name), and the return when
\* there is none
T_ExecuteLookup(t, name, args) ==
    /\ threads[t].pc = "idle"
    /\ LET tool == ToolRegistry_get(tools, name)
       IN  threads' = [threads EXCEPT ![t] =
                          IF tool = NoTool
                          THEN [Outside EXCEPT
                                   !.pc = "returned", !.name = name, !.args = args,
                                   !.call = NotFound("registry", name, args,
                                                     <<"Tool not found: ", name>>)]
                          ELSE [Outside EXCEPT
                                   !.pc = "run", !.name = name, !.args = args, !.tool = tool]]
    /\ UNCHANGED <<tools, servers, call, execVars, log, answer, commVars, tool_cache, pluginVars, workflowVars>>

\* execute(name, **kwargs): the try block, on the tool that was looked up
T_ExecuteRun(t, outcome) ==
    /\ threads[t].pc = "run"
    /\ LET me == threads[t]
           c  == Handle("registry", me.tool, me.name, me.args,
                        TryBlock(me.tool, me.args, outcome, TRUE))
       IN  threads' = [threads EXCEPT ![t] =
                          [me EXCEPT !.pc = IF c.raised = "none" THEN "returned" ELSE "raised",
                                     !.call = c, !.raised = c.raised]]
    /\ UNCHANGED <<tools, servers, call, execVars, log, answer, commVars, tool_cache, pluginVars, workflowVars>>

\* the caller takes the return value, or the exception, and goes on
T_Leave(t) ==
    /\ threads[t].pc \in {"returned", "raised"}
    /\ threads' = [threads EXCEPT ![t] = Outside]
    /\ UNCHANGED <<tools, servers, call, execVars, log, answer, commVars, tool_cache, pluginVars, workflowVars>>

\* ToolRegistry.get_all
ToolRegistry_get_all(tls) == [i \in 1..Cardinality(DOMAIN tls) |-> tls[Ordered(DOMAIN tls)[i]]]

\* get_all(): list(self.tools.values()), copied in one step
T_GetAll(t) ==
    /\ threads[t].pc = "idle"
    /\ threads' = [threads EXCEPT ![t] =
                       [Outside EXCEPT !.pc = "returned", !.name = "get_all",
                                       !.listing = ToolRegistry_get_all(tools),
                                       !.from = Len(log), !.upto = Len(log)]]
    /\ UNCHANGED <<tools, servers, call, execVars, log, answer, commVars, tool_cache, pluginVars, workflowVars>>

\* get_openai_tools(): the comprehension starts to iterate over
\* self.tools.values(); the iterator notes the size of the dict
T_OpenAIStart(t) ==
    /\ threads[t].pc = "idle"
    /\ threads' = [threads EXCEPT ![t] =
                       [Outside EXCEPT !.pc = "iter", !.name = "get_openai_tools",
                                       !.snapshot = DOMAIN tools, !.from = Len(log)]]
    /\ UNCHANGED <<tools, servers, call, execVars, log, answer, commVars, tool_cache, pluginVars, workflowVars>>

\* get_openai_tools(): the iterator is asked for the next value. It raises
\* RuntimeError when the size of the dict differs from the one it noted, and
\* when it finds a value after it has handed out as many as it noted. A key
\* that was deleted and stored again stands behind the iterator's position:
\* whether the iterator has handed that key out before is the choice
\* `notices`. A store on an existing key changes neither size nor keys. At
\* the end of the dict the list is returned. The order of the values is not
\* modelled.
T_OpenAINext(t, notices) ==
    /\ threads[t].pc = "iter"
    /\ LET me      == threads[t]
           size    == Cardinality(me.snapshot)
           left    == DOMAIN tools \ me.seen
           again   == \E n \in DOMAIN tools \cap me.seen :
                         \E k \in (me.from + 1)..Len(log) : n \notin DOMAIN log[k]
           raising == [me EXCEPT !.pc = "raised", !.raised = "RuntimeError"]
       IN  IF Cardinality(DOMAIN tools) /= size
           THEN threads' = [threads EXCEPT ![t] = raising]
           ELSE IF Len(me.listing) = size
           THEN IF left /= {} \/ (again /\ notices)
                THEN threads' = [threads EXCEPT ![t] = raising]
                ELSE threads' = [threads EXCEPT ![t] =
                                    [me EXCEPT !.pc = "returned", !.upto = Len(log)]]
           ELSE \E n \in left :
                   threads' = [threads EXCEPT ![t] =
                                  [me EXCEPT !.seen = @ \cup {n},
                                             !.listing = Append(@, Tool_to_openai_format(tools[n]))]]
    /\ UNCHANGED <<tools, servers, call, execVars, log, answer, commVars, tool_cache, pluginVars, workflowVars>>

(***************************************************************************)
(* agents/core/agent.py: AgentRegistry and AgentCommunicator               *)
(***************************************************************************)
AgentNames == {"agent0", "agent1", "agent2"}

MessageTexts == {"Hello"}

\* Agent(metadata): the registry reads only its name
Agent(name) == [name |-> name]

\* the dict send_message appends; id numbers the dict objects in the order
\* they were created
Message(from_agent, to_agent, message, id) ==
    [from |-> from_agent, to |-> to_agent, message |-> message, metadata |-> {}, id |-> id]

\* what an AgentCommunicator call was and what it returned
Exchange(kind, agent, message, messages) ==
    [kind |-> kind, agent |-> agent, message |-> message, messages |-> messages]

NoExchange == Exchange("none", "", "", <<>>)

\* AgentRegistry.get_all
AgentRegistry_get_all(ags) == [i \in 1..Cardinality(DOMAIN ags) |-> ags[Ordered(DOMAIN ags)[i]]]

GetMessagesKeepsQueue(queue, agent_name) ==
    [messages |-> SelectSeq(queue, LAMBDA msg : msg.to = agent_name),
     queue    |-> queue]

\* AgentCommunicator.get_messages_for: the list returned and the queue left
AgentCommunicator_get_messages_for(queue, agent_name) ==
    [messages |-> SelectSeq(queue, LAMBDA msg : msg.to = agent_name),
     queue    |-> SelectSeq(queue, LAMBDA msg : msg.to /= agent_name)]

BroadcastToEveryAgent(ags, from_agent) ==
    LET all == AgentRegistry_get_all(ags)
    IN  [i \in 1..Len(all) |-> all[i].name]

\* AgentCommunicator.broadcast: the names send_message is called with, in order
AgentCommunicator_broadcast(ags, from_agent) ==
    LET all  == AgentRegistry_get_all(ags)
        rcpt == SelectSeq(all, LAMBDA agent : agent.name /= from_agent)
    IN  [i \in 1..Len(rcpt) |-> rcpt[i].name]

\* AgentRegistry.register
RegisterAgent(agent) ==
    /\ agents' = [n \in DOMAIN agents \cup {agent.name} |->
                     IF n = agent.name THEN agent ELSE agents[n]]
    /\ UNCHANGED <<message_queue, exchange, sent, delivered,
                   tools, servers, call, execVars, log, answer, threads, tool_cache, pluginVars, workflowVars>>

\* AgentRegistry.unregister
UnregisterAgent(agent_name) ==
    /\ agents' = [n \in DOMAIN agents \ {agent_name} |-> agents[n]]
    /\ UNCHANGED <<message_queue, exchange, sent, delivered,
                   tools, servers, call, execVars, log, answer, threads, tool_cache, pluginVars, workflowVars>>

\* AgentCommunicator.send_message
SendMessage(from_agent, to_agent, message) ==
    /\ sent < MaxSent
    /\ message_queue' = Append(message_queue, Message(from_agent, to_agent, message, sent + 1))
    /\ sent' = sent + 1
    /\ exchange' = Exchange("send_message", from_agent, message, <<>>)
    /\ UNCHANGED <<agents, delivered, tools, servers, call, execVars, log, answer, threads, tool_cache, pluginVars, workflowVars>>

\* AgentCommunicator.get_messages_for
GetMessagesFor(agent_name) ==
    LET r == AgentCommunicator_get_messages_for(message_queue, agent_name)
    IN  /\ message_queue' = r.queue
        /\ exchange' = Exchange("get_messages_for", agent_name, "", r.messages)
        /\ delivered' = [id \in DOMAIN delivered |->
                            IF \E i \in 1..Len(r.messages) : r.messages[i].id = id
                            THEN delivered[id] + 1 ELSE delivered[id]]
        /\ UNCHANGED <<agents, sent, tools, servers, call, execVars, log, answer, threads, tool_cache, pluginVars, workflowVars>>

\* AgentCommunicator.broadcast
Broadcast(from_agent, message) ==
    LET to == AgentCommunicator_broadcast(agents, from_agent)
    IN  /\ sent + Len(to) <= MaxSent
        /\ message_queue' = message_queue \o
                                [i \in 1..Len(to) |-> Message(from_agent, to[i], message, sent + i)]
        /\ sent' = sent + Len(to)
        /\ exchange' = Exchange("broadcast", from_agent, message, <<>>)
        /\ UNCHANGED <<agents, delivered, tools, servers, call, execVars, log, answer, threads, tool_cache, pluginVars, workflowVars>>

(***************************************************************************)
(* plugins/core: PluginManager and PluginHook                              *)
(***************************************************************************)
\* the plugin directories that hold a plugin.py, and one id that has none
PluginIds == {"greeter", "audit"}
AbsentPluginId == "ghost"
RequestedPluginIds == PluginIds \cup {AbsentPluginId}

\* AVAILABLE_HOOKS: the names PluginManager.__init__ makes a PluginHook for
AVAILABLE_HOOKS ==
    {"chat.message.received", "tool.called",
     "plugin.loaded", "plugin.enabled", "plugin.disabled"}

\* PluginPriority values the plugins use
PriorityHigh == 25
PriorityNormal == 50

\* Plugin.hooks after on_load returned True: what the plugin put there with
\* register_hook. A handler is a bound method of the plugin instance; as the
\* manager registers handlers of an id only when it holds no instance of that
\* id, the handler is named by the plugin id and the hook.
PluginHooks(plugin_id) ==
    IF plugin_id = "greeter"
    THEN [h \in {"chat.message.received"} |->
             <<[handler |-> <<plugin_id, h>>, priority |-> PriorityNormal]>>]
    ELSE [h \in {"chat.message.received", "audit.custom"} |->
             <<[handler |-> <<plugin_id, h>>, priority |-> PriorityHigh]>>]

\* what a plugin callback does: on_load and on_enable return a bool or raise,
\* on_disable and on_unload return None or raise
BoolCallbacks == {"True", "False", "raises"}
VoidCallbacks == {"returns", "raises"}

\* PluginHook.register: append, then the stable sort by priority
PluginHook_register(handlers, handler, priority) ==
    LET entry == [handler |-> handler, priority |-> priority]
        front == SelectSeq(handlers, LAMBDA e : e.priority <= priority)
        back  == SelectSeq(handlers, LAMBDA e : e.priority > priority)
    IN  front \o <<entry>> \o back

\* PluginHook.unregister
PluginHook_unregister(handlers, handler) ==
    SelectSeq(handlers, LAMBDA e : e.handler /= handler)

\* the loop of load_plugin over plugin.hooks: the handlers of the hooks the
\* manager knows are registered, the others are skipped
RegisterPluginHooks(hks, plugin_id) ==
    [h \in DOMAIN hks |->
        IF h \in DOMAIN PluginHooks(plugin_id)
        THEN LET e == PluginHooks(plugin_id)[h][1]
             IN  PluginHook_register(hks[h], e.handler, e.priority)
        ELSE hks[h]]

\* the loop of unload_plugin over plugin.hooks
UnregisterPluginHooks(hks, plugin_id) ==
    [h \in DOMAIN hks |->
        IF h \in DOMAIN PluginHooks(plugin_id)
        THEN PluginHook_unregister(hks[h], PluginHooks(plugin_id)[h][1].handler)
        ELSE hks[h]]

Hold(plgs, plugin_id, state) ==
    [p \in DOMAIN plgs \cup {plugin_id} |-> IF p = plugin_id THEN state ELSE plgs[p]]

Drop(plgs, plugin_id) == [p \in DOMAIN plgs \ {plugin_id} |-> plgs[p]]

\* a manager: its plugins, its hooks, and what the call returned
Manager(plgs, hks, value) == [plugins |-> plgs, hooks |-> hks, value |-> value]

\* PluginManager.load_plugin. trigger_hook('plugin.loaded') runs the handlers
\* of that hook and swallows what they raise; it changes nothing here.
PluginManager_load_plugin(m, plugin_id, on_load) ==
    IF plugin_id \in DOMAIN m.plugins THEN Manager(m.plugins, m.hooks, TRUE)
    ELSE IF plugin_id \notin PluginIds THEN Manager(m.plugins, m.hooks, FALSE)
    ELSE IF on_load /= "True" THEN Manager(m.plugins, m.hooks, FALSE)
    ELSE Manager(Hold(m.plugins, plugin_id, "loaded"),
                 RegisterPluginHooks(m.hooks, plugin_id), TRUE)

\* PluginManager.enable_plugin
PluginManager_enable_plugin(m, plugin_id, on_enable) ==
    IF plugin_id \notin DOMAIN m.plugins THEN Manager(m.plugins, m.hooks, FALSE)
    ELSE IF m.plugins[plugin_id] = "active" THEN Manager(m.plugins, m.hooks, TRUE)
    ELSE IF on_enable = "True"
    THEN Manager(Hold(m.plugins, plugin_id, "active"), m.hooks, TRUE)
    ELSE Manager(m.plugins, m.hooks, FALSE)

\* PluginManager.disable_plugin
PluginManager_disable_plugin(m, plugin_id, on_disable) ==
    IF plugin_id \notin DOMAIN m.plugins THEN Manager(m.plugins, m.hooks, FALSE)
    ELSE IF m.plugins[plugin_id] /= "active" THEN Manager(m.plugins, m.hooks, TRUE)
    ELSE IF on_disable = "returns"
    THEN Manager(Hold(m.plugins, plugin_id, "inactive"), m.hooks, TRUE)
    ELSE Manager(m.plugins, m.hooks, FALSE)

\* PluginManager.unload_plugin: an active plugin is disabled first; the state
\* is set to UNLOADING and the handlers are unregistered before on_unload is
\* called; the plugin is deleted only when on_unload returned
PluginManager_unload_plugin(m, plugin_id, on_disable, on_unload) ==
    IF plugin_id \notin DOMAIN m.plugins THEN Manager(m.plugins, m.hooks, FALSE)
    ELSE LET d == IF m.plugins[plugin_id] = "active"
                  THEN PluginManager_disable_plugin(m, plugin_id, on_disable)
                  ELSE m
             unhooked == UnregisterPluginHooks(d.hooks, plugin_id)
         IN  IF on_unload = "returns"
             THEN Manager(Drop(d.plugins, plugin_id), unhooked, TRUE)
             ELSE Manager(Hold(d.plugins, plugin_id, "unloading"), unhooked, FALSE)

\* PluginManager.reload_plugin
PluginManager_reload_plugin(m, plugin_id, on_disable, on_unload, on_load, on_enable) ==
    LET was_active == plugin_id \in DOMAIN m.plugins /\ m.plugins[plugin_id] = "active"
        u == PluginManager_unload_plugin(m, plugin_id, on_disable, on_unload)
        l == PluginManager_load_plugin(u, plugin_id, on_load)
    IN  IF ~u.value THEN u
        ELSE IF ~l.value THEN l
        ELSE IF was_active THEN PluginManager_enable_plugin(l, plugin_id, on_enable)
        ELSE l

NoReturn == [op |-> "none", plugin_id |-> "", value |-> FALSE, seq |-> 0]

\* PluginManager.__init__
NoPlugins ==
    /\ plugins = <<>>
    /\ hooks = [h \in AVAILABLE_HOOKS |-> <<>>]
    /\ returned = NoReturn

\* the manager after a call, and the call's name, argument and return value
Calls(op, plugin_id, after) ==
    /\ plugins' = after.plugins
    /\ hooks' = after.hooks
    /\ returned' = [op |-> op, plugin_id |-> plugin_id, value |-> after.value,
                    seq |-> 1 - returned.seq]
    /\ UNCHANGED <<tools, servers, call, execVars, log, answer, threads, commVars,
                   tool_cache, workflowVars>>

LoadPlugin(plugin_id, on_load) ==
    Calls("load_plugin", plugin_id,
          PluginManager_load_plugin(Manager(plugins, hooks, FALSE), plugin_id, on_load))

EnablePlugin(plugin_id, on_enable) ==
    Calls("enable_plugin", plugin_id,
          PluginManager_enable_plugin(Manager(plugins, hooks, FALSE), plugin_id, on_enable))

DisablePlugin(plugin_id, on_disable) ==
    Calls("disable_plugin", plugin_id,
          PluginManager_disable_plugin(Manager(plugins, hooks, FALSE), plugin_id, on_disable))

UnloadPlugin(plugin_id, on_disable, on_unload) ==
    Calls("unload_plugin", plugin_id,
          PluginManager_unload_plugin(Manager(plugins, hooks, FALSE), plugin_id,
                                      on_disable, on_unload))

ReloadPlugin(plugin_id, on_disable, on_unload, on_load, on_enable) ==
    Calls("reload_plugin", plugin_id,
          PluginManager_reload_plugin(Manager(plugins, hooks, FALSE), plugin_id,
                                      on_disable, on_unload, on_load, on_enable))

(***************************************************************************)
(* workflows/engine.py: WorkflowEngine and its scheduler thread            *)
(***************************************************************************)
\* Workflow.id values (the creation time, to the second)
WorkflowIds == {"w1", "w2"}

\* WorkflowExecution.status when execute_workflow appends the record
FinalStatuses == {"completed", "failed"}

\* Workflow(name, description, triggers, actions): enabled by default, never
\* run. Every workflow here carries one SCHEDULE trigger.
Workflow == [enabled |-> TRUE, run_count |-> 0]

\* WorkflowExecution(workflow_id) with the status execute_workflow gave it
WorkflowExecution(workflow_id, status) == [workflow_id |-> workflow_id, status |-> status]

\* WorkflowEngine.__init__ on an empty workflows directory; no job was given
\* to the schedule module and no scheduler thread exists
NoWorkflows ==
    /\ workflows = <<>>
    /\ executions = <<>>
    /\ running = FALSE
    /\ jobs = <<>>
    /\ loop = "none"
    /\ due = {}

OutsideEngine ==
    UNCHANGED <<tools, servers, call, execVars, log, answer, threads, commVars,
                tool_cache, pluginVars>>

\* WorkflowEngine.create_workflow
CreateWorkflow(workflow_id) ==
    /\ workflow_id \notin DOMAIN workflows
    /\ workflows' = [w \in DOMAIN workflows \cup {workflow_id} |->
                        IF w = workflow_id THEN Workflow ELSE workflows[w]]
    /\ UNCHANGED <<executions, running, jobs, loop, due>>
    /\ OutsideEngine

\* WorkflowEngine.delete_workflow
DeleteWorkflow(workflow_id) ==
    /\ workflows' = [w \in DOMAIN workflows \ {workflow_id} |-> workflows[w]]
    /\ UNCHANGED <<executions, running, jobs, loop, due>>
    /\ OutsideEngine

\* WorkflowEngine.enable_workflow
EnableWorkflow(workflow_id) ==
    /\ workflows' = [w \in DOMAIN workflows |->
                        IF w = workflow_id THEN [workflows[w] EXCEPT !.enabled = TRUE]
                        ELSE workflows[w]]
    /\ UNCHANGED <<executions, running, jobs, loop, due>>
    /\ OutsideEngine

\* WorkflowEngine.disable_workflow
DisableWorkflow(workflow_id) ==
    /\ workflows' = [w \in DOMAIN workflows |->
                        IF w = workflow_id THEN [workflows[w] EXCEPT !.enabled = FALSE]
                        ELSE workflows[w]]
    /\ UNCHANGED <<executions, running, jobs, loop, due>>
    /\ OutsideEngine

\* WorkflowEngine.start_scheduler: nothing when self.running is set; else the
\* flag is set and a thread is started on _scheduler_loop. A new thread is
\* started here once the one before has ended, as after the join of
\* stop_scheduler.
StartScheduler ==
    /\ IF running
       THEN UNCHANGED <<running, loop, due>>
       ELSE /\ loop \in {"none", "exited", "died"}
            /\ running' = TRUE
            /\ loop' = "setup"
            /\ due' = {}
    /\ UNCHANGED <<workflows, executions, jobs>>
    /\ OutsideEngine

\* WorkflowEngine.stop_scheduler: the flag is cleared; the join waits for the
\* thread to see it
StopScheduler ==
    /\ running' = FALSE
    /\ UNCHANGED <<workflows, executions, jobs, loop, due>>
    /\ OutsideEngine

\* the enabled workflows in the order of self.workflows.values(), which is
\* the order they were put into the dict: any order here
ScheduledNow ==
    LET S == {w \in DOMAIN workflows : workflows[w].enabled}
        n == Cardinality(S)
    IN  {order \in [1..n -> S] : \A i, k \in 1..n : order[i] = order[k] => i = k}

\* _scheduler_loop, first part: _schedule_workflow gives the schedule module
\* one job for each SCHEDULE trigger of each workflow that is enabled now
LoopSetup(order) ==
    /\ loop = "setup"
    /\ Len(jobs) + Len(order) <= MaxJobs
    /\ jobs' = jobs \o order
    /\ loop' = "check"
    /\ UNCHANGED <<workflows, executions, running, due>>
    /\ OutsideEngine

\* while self.running: the test. When it passes, schedule.run_pending() is
\* entered with the jobs whose time has come.
LoopCheck(pending) ==
    /\ loop = "check"
    /\ IF running
       THEN loop' = "pending" /\ due' = pending
       ELSE loop' = "exited" /\ due' = {}
    /\ UNCHANGED <<workflows, executions, running, jobs>>
    /\ OutsideEngine

\* WorkflowEngine.execute_workflow as the job of the schedule module calls
\* it: lambda: self.execute_workflow(workflow.id). A workflow that is not in
\* self.workflows raises ValueError; the schedule module does not catch what a
\* job raises, so the exception leaves run_pending and _scheduler_loop and
\* the thread ends.
RunJob(j, status) ==
    /\ loop = "pending"
    /\ j \in due
    /\ LET workflow_id == jobs[j]
       IN  IF workflow_id \notin DOMAIN workflows
           THEN /\ loop' = "died"
                /\ due' = {}
                /\ UNCHANGED <<workflows, executions>>
           ELSE /\ Len(executions) < MaxExecutions
                /\ executions' = Append(executions, WorkflowExecution(workflow_id, status))
                /\ workflows' = [workflows EXCEPT ![workflow_id].run_count =
                                    IF status = "completed" THEN @ + 1 ELSE @]
                /\ due' = due \ {j}
                /\ loop' = loop
    /\ UNCHANGED <<running, jobs>>
    /\ OutsideEngine

\* schedule.run_pending() returns and time.sleep(1) passes
LoopSleep ==
    /\ loop = "pending"
    /\ due = {}
    /\ loop' = "check"
    /\ UNCHANGED <<workflows, executions, running, jobs, due>>
    /\ OutsideEngine

\* no mutation, no discovery query, no caller thread, no agent traffic yet,
\* and self.tool_cache = {}
Quiet ==
    /\ log = <<>>
    /\ answer = NoAnswer
    /\ threads = <<>>
    /\ agents = <<>>
    /\ message_queue = <<>>
    /\ exchange = NoExchange
    /\ sent = 0
    /\ delivered = [id \in 1..MaxSent |-> 0]
    /\ tool_cache = <<>>
    /\ NoPlugins
    /\ NoWorkflows

(***************************************************************************)
(* Specifications                                                          *)
(***************************************************************************)
InitRegistry ==
    /\ tools = <<>>
    /\ servers = <<>>
    /\ call = NoCall
    /\ ExecIdle
    /\ Quiet

NextRegistry ==
    \/ \E tool \in ToolObjects : Register(tool) /\ UNCHANGED log
    \/ \E name \in ToolNames : Unregister(name) /\ UNCHANGED log
    \/ \E name \in ToolNames, args \in SUBSET ArgNames, outcome \in BodyOutcomes :
          Execute(name, args, outcome)

SpecRegistry == InitRegistry /\ [][NextRegistry]_vars

InitMcp ==
    /\ tools = <<>>
    /\ servers = <<>>
    /\ call = NoCall
    /\ ExecIdle
    /\ Quiet

NextMcp ==
    \/ \E name \in ServerNames : RegisterServer(MCPServer(name, "")) /\ UNCHANGED log
    \/ \E name \in ServerNames, tool \in McpToolObjects :
          RegisterTool(name, tool) /\ UNCHANGED log
    \/ \E server_name \in ServerNames, tool_name \in ToolNames, args \in SUBSET ArgNames,
          outcome \in BodyOutcomes :
          CallTool(server_name, tool_name, args, outcome)

SpecMcp == InitMcp /\ [][NextMcp]_vars

InitExec ==
    /\ tools = <<>>
    /\ servers = <<>>
    /\ call = NoCall
    /\ ExecIdle
    /\ Quiet

NextExec ==
    \/ Invoke
    \/ ChildForks
    \/ \E rc \in {0, 1} : LeaderExits(rc)
    \/ DescExits
    \/ \E holds_pipe \in BOOLEAN, decodable \in BOOLEAN :
          CommunicateReturns(holds_pipe, decodable)
    \/ \E ignores \in BOOLEAN, desc_in_group \in BOOLEAN, desc_ignores \in BOOLEAN :
          DeadlineExpires(ignores, desc_in_group, desc_ignores)
    \/ WaitReturns

SpecExec == InitExec /\ [][NextExec]_vars

InitDiscovery ==
    /\ tools = <<>>
    /\ servers = <<>>
    /\ call = NoCall
    /\ ExecIdle
    /\ Quiet

NextDiscovery ==
    \/ \E name \in ServerNames :
          RegisterServer(MCPServer(name, "Code execution")) /\ UNCHANGED log
    \/ \E name \in ServerNames, tool \in DiscoveryTools :
          RegisterTool(name, tool) /\ UNCHANGED log
    \/ \E query \in Queries, server_name \in ServerFilters, detail_level \in RequestedLevels :
          SearchTools(query, server_name, detail_level) /\ UNCHANGED log
    \/ \E server_name \in ServerNames : GetServerManifest(server_name) /\ UNCHANGED log
    \/ \E server_name \in ServerNames, tool_name \in ToolNames :
          GetToolDefinition(server_name, tool_name) /\ UNCHANGED log

SpecDiscovery == InitDiscovery /\ [][NextDiscovery]_vars

InitSchemas ==
    /\ tools = <<>>
    /\ servers = <<>>
    /\ call = NoCall
    /\ ExecIdle
    /\ Quiet

NextSchemas ==
    \/ \E tool \in ToolObjects : Register(tool) /\ UNCHANGED log
    \/ \E name \in ToolNames : Unregister(name) /\ UNCHANGED log
    \/ GetOpenAITools /\ UNCHANGED log

SpecSchemas == InitSchemas /\ [][NextSchemas]_vars

\* an entry of log: the call and its argument
Mutation(kind, name, tool, server) ==
    [kind |-> kind, name |-> name, tool |-> tool, server |-> server]

Logged(m) == Len(log) < MaxOps /\ log' = Append(log, m)

InitRegistration ==
    /\ tools = <<>>
    /\ servers = <<>>
    /\ call = NoCall
    /\ ExecIdle
    /\ Quiet

NextRegistration ==
    \/ \E tool \in ToolObjects :
          Register(tool) /\ Logged(Mutation("register", tool.name, tool, NoServer))
    \/ \E name \in ToolNames :
          Unregister(name) /\ Logged(Mutation("unregister", name, NoTool, NoServer))
    \/ \E name \in ServerNames, d \in ServerDescriptions :
          RegisterServer(MCPServer(name, d))
              /\ Logged(Mutation("register_server", name, NoTool, MCPServer(name, d)))

SpecRegistration == InitRegistration /\ [][NextRegistration]_vars

InitConcurrent ==
    /\ tools = <<>>
    /\ servers = <<>>
    /\ call = NoCall
    /\ ExecIdle
    /\ log = <<>>
    /\ answer = NoAnswer
    /\ threads = [t \in Callers |-> Outside]
    /\ agents = <<>>
    /\ message_queue = <<>>
    /\ exchange = NoExchange
    /\ sent = 0
    /\ delivered = [id \in 1..MaxSent |-> 0]
    /\ tool_cache = <<>>
    /\ NoPlugins
    /\ NoWorkflows

NextConcurrent ==
    \E t \in Callers :
       \/ \E tool \in ReloadedTools : T_Register(t, tool) /\ UNCHANGED log
       \/ \E name \in ToolNames : T_UnregisterTest(t, name)
       \/ T_UnregisterDel(t) /\ UNCHANGED log
       \/ \E name \in ToolNames, args \in CallerArgs : T_ExecuteLookup(t, name, args)
       \/ \E outcome \in BodyOutcomes : T_ExecuteRun(t, outcome)
       \/ T_Leave(t)

SpecConcurrent == InitConcurrent /\ [][NextConcurrent]_vars

InitAgents ==
    /\ tools = <<>>
    /\ servers = <<>>
    /\ call = NoCall
    /\ ExecIdle
    /\ Quiet

NextAgents ==
    \/ \E name \in AgentNames : RegisterAgent(Agent(name))
    \/ \E name \in AgentNames : UnregisterAgent(name)
    \/ \E from_agent \in AgentNames, to_agent \in AgentNames, message \in MessageTexts :
          SendMessage(from_agent, to_agent, message)
    \/ \E name \in AgentNames : GetMessagesFor(name)
    \/ \E from_agent \in AgentNames, message \in MessageTexts : Broadcast(from_agent, message)

SpecAgents == InitAgents /\ [][NextAgents]_vars

\* what the execution tools hand back to a dispatcher besides a plain result
\* or error dict: the refusal of a command, and the result of a timed-out run
GuestReturns ==
    {Dict({"error", "blocked"}, DangerMsg),
     Dict({"success", "stdout", "stderr", "return_code", "timeout"}, <<"timed out">>)}

DispatchOutcomes == BodyOutcomes \cup {Returns(v) : v \in GuestReturns}

\* One registry and one client, both dispatching.
InitDispatch ==
    /\ tools = <<>>
    /\ servers = <<>>
    /\ call = NoCall
    /\ ExecIdle
    /\ Quiet

NextDispatch ==
    \/ \E tool \in ReloadedTools : Register(tool) /\ UNCHANGED log
    \/ RegisterServer(MCPServer("execution", "")) /\ UNCHANGED log
    \/ \E tool \in McpToolObjects : RegisterTool("execution", tool) /\ UNCHANGED log
    \/ \E name \in ToolNames, args \in CallerArgs, outcome \in DispatchOutcomes :
          Execute(name, args, outcome)
    \/ \E server_name \in ServerNames, tool_name \in ToolNames, args \in CallerArgs,
          outcome \in DispatchOutcomes :
          CallTool(server_name, tool_name, args, outcome)

SpecDispatch == InitDispatch /\ [][NextDispatch]_vars

\* One thread lists the registry while another one changes it. log holds the
\* tool map after each change, up to MaxOps changes.
Noted == Len(log) < MaxOps /\ log' = IF tools' = tools THEN log ELSE Append(log, tools')

\* the tools that are loaded, replaced and unloaded while the registry is
\* listed: two schemas for each name
ListedTools == DiscoveryTools

InitEnumerate ==
    /\ tools = <<>>
    /\ servers = <<>>
    /\ call = NoCall
    /\ ExecIdle
    /\ log = <<>>
    /\ answer = NoAnswer
    /\ threads = [t \in Callers |-> Outside]
    /\ agents = <<>>
    /\ message_queue = <<>>
    /\ exchange = NoExchange
    /\ sent = 0
    /\ delivered = [id \in 1..MaxSent |-> 0]
    /\ tool_cache = <<>>
    /\ NoPlugins
    /\ NoWorkflows

NextEnumerate ==
    \/ \E tool \in ListedTools : T_Register("scheduler", tool) /\ Noted
    \/ \E name \in ToolNames : T_UnregisterTest("scheduler", name)
    \/ T_UnregisterDel("scheduler") /\ Noted
    \/ T_GetAll("main")
    \/ T_OpenAIStart("main")
    \/ \E notices \in BOOLEAN : T_OpenAINext("main", notices)
    \/ \E t \in Callers : T_Leave(t)

SpecEnumerate == InitEnumerate /\ [][NextEnumerate]_vars

\* Discovery on one client whose answers are recorded: log holds the
\* answers in the order the queries were made, up to MaxAsked queries.
Recorded == Len(log) < MaxAsked /\ log' = Append(log, answer')

InitFresh ==
    /\ tools = <<>>
    /\ servers = <<>>
    /\ call = NoCall
    /\ ExecIdle
    /\ Quiet

NextFresh ==
    \/ RegisterServer(MCPServer("execution", "Code execution")) /\ UNCHANGED log
    \/ \E tool \in DiscoveryTools : RegisterTool("execution", tool) /\ UNCHANGED log
    \/ \E query \in {"", "PY"}, server_name \in {"", "execution"} :
          SearchTools(query, server_name, "full") /\ Recorded
    \/ GetServerManifest("execution") /\ Recorded
    \/ \E tool_name \in ToolNames : GetToolDefinition("execution", tool_name) /\ Recorded

SpecFresh == InitFresh /\ [][NextFresh]_vars

\* One PluginManager over a directory of two plugins, whose callbacks return
\* or raise as they please.
InitPlugins ==
    /\ tools = <<>>
    /\ servers = <<>>
    /\ call = NoCall
    /\ ExecIdle
    /\ Quiet

NextPlugins ==
    \/ \E plugin_id \in RequestedPluginIds, on_load \in BoolCallbacks :
          LoadPlugin(plugin_id, on_load)
    \/ \E plugin_id \in RequestedPluginIds, on_enable \in BoolCallbacks :
          EnablePlugin(plugin_id, on_enable)
    \/ \E plugin_id \in RequestedPluginIds, on_disable \in VoidCallbacks :
          DisablePlugin(plugin_id, on_disable)
    \/ \E plugin_id \in RequestedPluginIds, on_disable \in VoidCallbacks,
          on_unload \in VoidCallbacks :
          UnloadPlugin(plugin_id, on_disable, on_unload)
    \/ \E plugin_id \in RequestedPluginIds, on_disable \in VoidCallbacks,
          on_unload \in VoidCallbacks, on_load \in BoolCallbacks,
          on_enable \in BoolCallbacks :
          ReloadPlugin(plugin_id, on_disable, on_unload, on_load, on_enable)

SpecPlugins == InitPlugins /\ [][NextPlugins]_vars

\* One WorkflowEngine: a caller creates, enables, disables and deletes
\* workflows and starts and stops the scheduler, whose thread runs beside it.
InitScheduler ==
    /\ tools = <<>>
    /\ servers = <<>>
    /\ call = NoCall
    /\ ExecIdle
    /\ Quiet

NextScheduler ==
    \/ \E workflow_id \in WorkflowIds : CreateWorkflow(workflow_id)
    \/ \E workflow_id \in WorkflowIds : DeleteWorkflow(workflow_id)
    \/ \E workflow_id \in WorkflowIds : EnableWorkflow(workflow_id)
    \/ \E workflow_id \in WorkflowIds : DisableWorkflow(workflow_id)
    \/ StartScheduler
    \/ StopScheduler
    \/ \E order \in ScheduledNow : LoopSetup(order)
    \/ \E pending \in SUBSET (1..Len(jobs)) : LoopCheck(pending)
    \/ \E j \in 1..Len(jobs), status \in FinalStatuses : RunJob(j, status)
    \/ LoopSleep

SpecScheduler == InitScheduler /\ [][NextScheduler]_vars

\* the engine's own steps are taken when they can be; the guest owes nothing
FairSpecExec ==
    /\ SpecExec
    /\ WF_vars(\E holds_pipe \in BOOLEAN, decodable \in BOOLEAN :
                  CommunicateReturns(holds_pipe, decodable))
    /\ WF_vars(\E ignores \in BOOLEAN, desc_in_group \in BOOLEAN, desc_ignores \in BOOLEAN :
                  DeadlineExpires(ignores, desc_in_group, desc_ignores))
    /\ WF_vars(WaitReturns)

(***************************************************************************)
(* Properties                                                              *)
(***************************************************************************)
\* a step that dispatched through path
Dispatched(path) == call'.seq /= call.seq /\ call'.path = path

C2_RequiredCheckedBeforeExecute ==
    [][\A path \in {"registry", "mcp"} :
          LET tool == IF path = "registry"
                      THEN ToolRegistry_get(tools, call'.name)
                      ELSE MCPServer_get_tool(MCPClient_get_server(servers, call'.server),
                                              call'.name)
          IN  (Dispatched(path) /\ tool /= NoTool /\ ~(Range(tool.required) \subseteq call'.args))
                  => /\ "body" \notin Range(call'.events)
                     /\ "error" \in call'.result.keys]_vars

\* C3: ToolRegistry.execute with a name that is not registered returns the
\* not-found error and runs neither validate_parameters nor execute of any
\* tool.
C3_UnregisteredIsNotFound ==
    [][\A n \in ToolNames :
          (Dispatched("registry") /\ call'.name = n /\ n \notin DOMAIN tools)
              => /\ call'.result = Dict({"error"}, <<"Tool not found: ", n>>)
                 /\ call'.events = <<>>
                 /\ call'.raised = "none"]_vars

\* a not-found answer while another tool is registered
C3_Witness ==
    /\ call.path = "registry"
    /\ call.name \notin DOMAIN tools
    /\ DOMAIN tools /= {}
    /\ call.result = Dict({"error"}, <<"Tool not found: ", call.name>>)
    /\ call.events = <<>>

\* the call returned a safety-policy rejection
BlockedOutcome ==
    /\ pc = "returned"
    /\ "error" \in result.keys
    /\ \/ result.blocked
       \/ result.error = DangerMsg

\* C4: a call that ends in the Blocked outcome never spawned a child.
C4_BlockedNeverSpawned ==
    BlockedOutcome => /\ leader.st = "none"
                      /\ desc = "none"
                      /\ \A i \in 1..Len(events) : events[i] /= "spawn"

\* the registry's shell executor rejected a command
C4_Witness == BlockedOutcome /\ req.tool = "BashExecutor" /\ IsDangerous(req.command)

\* C5: a shell-mode request whose leading token is a deny-listed command
\* name never spawns a process, whatever its arguments.
C5_DenyListedTokenNeverSpawns ==
    (req.tool \in ShellTools /\ req.command[1] \in DANGEROUS_COMMANDS) => leader.st = "none"

\* a request the safety policy rejects
Rejected ==
    \/ req.tool \in ShellTools /\ IsDangerous(req.command)
    \/ req.tool = "SystemCommand" /\ req.command[1] \in DANGEROUS_COMMANDS

\* C6: every safety-policy rejection returns a non-empty error and the flag
\* blocked: true, on the registry executor and the discovery-server executor
\* alike.
C6_RejectionCarriesBlockedFlag ==
    (pc = "returned" /\ Rejected)
        => /\ "error" \in result.keys
           /\ result.error /= <<>>
           /\ "blocked" \in result.keys
           /\ result.blocked = TRUE

\* min(max(requested, 1), 300), case by case
ClampedInto1To300(t) == IF t < 1 THEN 1 ELSE IF t > 300 THEN 300 ELSE t

\* C7: in the three guest languages the timeout the wait on the child is
\* given, and the timeout a timed-out result reports, are the requested
\* timeout clamped into [1, 300].
C7_TimeoutClamped ==
    (req.tool \in GuestTools /\ leader.st /= "none")
        => /\ deadline = ClampedInto1To300(req.timeout)
           /\ result.timeout => result.reported = ClampedInto1To300(req.timeout)

\* a timed-out result of a request whose timeout was out of range
C7_Witness ==
    /\ pc = "returned"
    /\ req.tool \in GuestTools
    /\ result.timeout
    /\ (req.timeout < MIN_TIMEOUT \/ req.timeout > MAX_TIMEOUT)

\* C8: once the deadline elapsed on a running child the call returns, with
\* success = false and timeout = true, whatever the guest does about the
\* termination signal.
C8_TimedOutCallReturns ==
    (pc = "wait" /\ req.tool \in GuestTools)
        ~> (pc = "returned" /\ result.timeout /\ ~result.success)

\* C9: when a timed-out call returns, no process of the child's subtree is
\* alive.
C9_NoSurvivorAfterTimeout ==
    (pc = "returned" /\ req.tool \in GuestTools /\ result.timeout) => desc /= "alive"

\* C10: in the scripting-language modes the temporary source file does not
\* exist once the call has returned, on every exit path.
C10_TempFileGoneOnReturn ==
    (pc = "returned" /\ req.tool \in ScriptTools) => tempfile /= "exists"

\* the key sets a result dict can have
ResultVariants ==
    {{"success", "stdout", "stderr", "return_code", "timeout"},
     {"error"},
     {"error", "blocked"}}

IsCompleted ==
    /\ result.keys = {"success", "stdout", "stderr", "return_code", "timeout"}
    /\ ~result.timeout
    /\ result.success <=> (result.return_code = 0)
    /\ result.return_code = leader.rc

IsTimedOut ==
    /\ result.keys = {"success", "stdout", "stderr", "return_code", "timeout"}
    /\ result.timeout
    /\ ~result.success
    /\ result.return_code = -1

\* C11: every returned execution call has exactly one result variant, and a
\* call that spawned a child returns either Completed (timeout = false,
\* success iff return_code = 0) or TimedOut (timeout = true, success = false,
\* return_code = -1), never both, however the child's exit interleaves with
\* the expiry of the deadline.
C11_CompletedXorTimedOut ==
    (pc = "returned" /\ req.tool \in GuestTools)
        => /\ result.keys \in ResultVariants
           /\ leader.st /= "none" => /\ IsCompleted \/ IsTimedOut
                                     /\ ~(IsCompleted /\ IsTimedOut)

Asked(kind) == answer'.seq /= answer.seq /\ answer'.kind = kind

\* the same letter, whatever the case
SameLetter(a, b) ==
    \/ a = b
    \/ a \in DOMAIN ToLower /\ ToLower[a] = b
    \/ b \in DOMAIN ToLower /\ ToLower[b] = a

\* q occurs in text as a case-insensitive substring
OccursIgnoringCase(q, text) ==
    \E i \in 0..(Len(text) - Len(q)) : \A j \in 1..Len(q) : SameLetter(text[i + j], q[j])

\* the (server, tool) pairs a search must return
ExpectedPairs(q, filter) ==
    {pair \in ServerNames \X ToolNames :
        /\ pair[1] \in DOMAIN servers
        /\ filter = "" \/ filter = pair[1]
        /\ pair[2] \in DOMAIN servers[pair[1]].tools
        /\ \/ OccursIgnoringCase(Text[q], Text[pair[2]])
           \/ OccursIgnoringCase(Text[q], Text[Descriptions[pair[2]]])}

PairsOf(list) == {<<list[i].server, list[i].tool>> : i \in 1..Len(list)}

\* C13: for every query, server filter and detail level, search_tools
\* returns exactly one result for each (server, tool) in scope whose name or
\* description contains the query as a case-insensitive substring, and
\* nothing else; with a filter only that server's tools are in scope; the
\* pairs returned are the same at all three detail levels.
C13_SearchReturnsExactlyTheMatches ==
    [][Asked("search")
          => /\ answer'.raised = "none"
             /\ PairsOf(answer'.list) = ExpectedPairs(answer'.query, answer'.server)
             /\ Len(answer'.list) = Cardinality(ExpectedPairs(answer'.query, answer'.server))
             /\ \A level \in DetailLevels :
                   PairsOf(MCPClient_search_tools(servers, answer'.query, answer'.server,
                                                  level).list)
                       = PairsOf(answer'.list)]_vars

\* C14: for a registered server, each manifest entry has the tool's name and
\* description and no parameter schema, there is one entry per tool, and
\* get_tool_definition of every listed tool is not an error and has name,
\* description, the full parameter schema, returns and server.
C14_ManifestCoarseDefinitionFine ==
    [][/\ (Asked("manifest") /\ answer'.server \in DOMAIN servers)
            => LET s == answer'.server
                   m == answer'.dict
               IN  /\ m.keys = {"name", "description", "tools"}
                   /\ Len(m.tools) = Cardinality(DOMAIN servers[s].tools)
                   /\ {m.tools[i].name : i \in 1..Len(m.tools)} = DOMAIN servers[s].tools
                   /\ \A i \in 1..Len(m.tools) :
                         LET e == m.tools[i]
                             d == MCPClient_get_tool_definition(servers, s, e.name)
                         IN  /\ e.keys = {"name", "description"}
                             /\ e.parameters = NoSchema
                             /\ e.description = Descriptions[e.name]
                             /\ "error" \notin d.keys
                             /\ d.parameters.required = servers[s].tools[e.name].required
       /\ (/\ Asked("definition")
           /\ answer'.server \in DOMAIN servers
           /\ answer'.tool \in DOMAIN servers[answer'.server].tools)
            => LET d == answer'.dict
                   t == servers[answer'.server].tools[answer'.tool]
               IN  /\ d.keys = {"name", "description", "parameters", "returns", "server"}
                   /\ d.name = answer'.tool
                   /\ d.description = Descriptions[answer'.tool]
                   /\ d.parameters.type = "object"
                   /\ d.parameters.properties = Range(ParamOrder)
                   /\ d.parameters.required = t.required
                   /\ d.returns = "Any"
                   /\ d.server = answer'.server]_vars

\* the manifest of a server that holds two tools
C14_Witness ==
    /\ answer.kind = "manifest"
    /\ answer.server \in DOMAIN servers
    /\ Len(answer.dict.tools) = 2
    /\ answer.dict.tools[1].keys = {"name", "description"}

\* C15: get_openai_tools has exactly one entry per registered tool, and the
\* entry of a tool carries, under function.parameters.required, exactly the
\* required list the tool declares, and the tool's name and description.
C15_SchemaRoundTrip ==
    [][Asked("openai")
          => /\ Len(answer'.list) = Cardinality(DOMAIN tools)
             /\ \A n \in DOMAIN tools :
                   \E i \in 1..Len(answer'.list) :
                      LET entry == answer'.list[i]
                      IN  /\ entry.type = "function"
                          /\ entry.function.name = n
                          /\ entry.function.name = tools[n].name
                          /\ entry.function.description = Descriptions[n]
                          /\ entry.function.parameters.required = tools[n].required
                          /\ \A j \in 1..Len(answer'.list) :
                                answer'.list[j].function.name = n => j = i]_vars

\* two registered tools with different required lists, both in the schema list
C15_Witness ==
    /\ answer.kind = "openai"
    /\ Len(answer.list) = 2
    /\ DOMAIN tools = ToolNames
    /\ \E i, j \in 1..2 :
          /\ answer.list[i].function.parameters.required = <<"code">>
          /\ answer.list[j].function.parameters.required = <<>>

\* the last call in log that was about this name, 0 if none
LastAbout(kinds, name) ==
    LET about == {i \in 1..Len(log) : log[i].kind \in kinds /\ log[i].name = name}
    IN  IF about = {} THEN 0 ELSE CHOOSE i \in about : \A j \in about : j <= i

\* the tool most recently registered under name and not unregistered since
LatestTool(name) ==
    LET i == LastAbout({"register", "unregister"}, name)
    IN  IF i = 0 \/ log[i].kind = "unregister" THEN NoTool ELSE log[i].tool

LatestServer(name) ==
    LET i == LastAbout({"register_server"}, name)
    IN  IF i = 0 THEN NoServer ELSE log[i].server

\* C16: after any sequence of register / unregister calls, get(name) is the
\* object most recently registered under name unless it was unregistered
\* since, the registry holds one entry per name so registered, and a
\* registration under one name leaves the others alone; likewise for
\* MCPClient.register_server and get_server.
C16_LastWriteWins ==
    /\ \A n \in ToolNames : ToolRegistry_get(tools, n) = LatestTool(n)
    /\ DOMAIN tools = {n \in ToolNames : LatestTool(n) /= NoTool}
    /\ \A n \in ServerNames : MCPClient_get_server(servers, n) = LatestServer(n)
    /\ DOMAIN servers = {n \in ServerNames : LatestServer(n) /= NoServer}

\* a name registered twice with different tools while another name is held
C16_Witness ==
    /\ Len(log) = 3
    /\ log[1].kind = "register"
    /\ log[2].kind = "register"
    /\ log[3].kind = "register"
    /\ log[1].name /= log[2].name
    /\ log[3].name = log[2].name
    /\ log[3].tool /= log[2].tool
    /\ tools[log[3].name] = log[3].tool
    /\ tools[log[1].name] = log[1].tool

\* the thread is inside a mutation of the tool map
InMutation(t) == threads[t].pc = "del"

\* C17: register and unregister change the tool map under one mutex, so no
\* two threads are inside a mutation at once and none fails; a dispatch that
\* interleaves with them runs the tool it looked up or returns not-found,
\* and never raises.
C17_MutationUnderMutex ==
    /\ \A t1, t2 \in Callers : (InMutation(t1) /\ InMutation(t2)) => t1 = t2
    /\ \A t \in Callers :
          /\ threads[t].raised = "none"
          /\ (threads[t].pc = "returned" /\ threads[t].call.path = "registry")
                => \/ threads[t].call.result =
                         Dict({"error"}, <<"Tool not found: ", threads[t].name>>)
                   \/ threads[t].call.tool = threads[t].tool

\* a step that made this AgentCommunicator call (a call that returns what
\* the last one returned and changes nothing leaves no step to look at)
Did(kind) ==
    /\ exchange' /= exchange \/ message_queue' /= message_queue
    /\ exchange'.kind = kind

\* where the message numbered id stands in a list, 0 if it is not there
PositionOf(id, list) ==
    IF \E i \in 1..Len(list) : list[i].id = id
    THEN CHOOSE i \in 1..Len(list) : list[i].id = id
    ELSE 0

\* list keeps the order its messages had in queue
KeepsOrderOf(queue, list) ==
    \A i, j \in 1..Len(list) :
       i < j => /\ PositionOf(list[i].id, queue) > 0
                /\ PositionOf(list[i].id, queue) < PositionOf(list[j].id, queue)

\* C18: get_messages_for(a) returns every queued message addressed to a, in
\* the order they were sent, removes exactly those and leaves the others
\* queued in their order; so no message is delivered twice, and a second
\* get_messages_for(a) with no send in between returns the empty list.
C18_GetMessagesDeliversOnce ==
    [][Did("get_messages_for")
          => LET a   == exchange'.agent
                 got == exchange'.messages
             IN  /\ \A i \in 1..Len(message_queue) :
                       LET m == message_queue[i]
                       IN  IF m.to = a
                           THEN /\ PositionOf(m.id, got) > 0
                                /\ got[PositionOf(m.id, got)] = m
                                /\ PositionOf(m.id, message_queue') = 0
                           ELSE /\ PositionOf(m.id, got) = 0
                                /\ PositionOf(m.id, message_queue') > 0
                                /\ message_queue'[PositionOf(m.id, message_queue')] = m
                 /\ Len(got) + Len(message_queue') = Len(message_queue)
                 /\ KeepsOrderOf(message_queue, got)
                 /\ KeepsOrderOf(message_queue, message_queue')
                 /\ \A id \in DOMAIN delivered : delivered'[id] <= 1
                 /\ AgentCommunicator_get_messages_for(message_queue', a).messages = <<>>]_vars

\* an agent got two of its messages, in order, while another agent's message,
\* sent between them, stayed queued
C18_Witness ==
    /\ exchange.kind = "get_messages_for"
    /\ Len(exchange.messages) = 2
    /\ exchange.messages[1].id = 1
    /\ exchange.messages[2].id = 3
    /\ Len(message_queue) = 1
    /\ message_queue[1].id = 2
    /\ message_queue[1].to /= exchange.agent

\* C19: broadcast(sender, msg) enqueues exactly one message from sender to
\* every agent registered at that moment whose name differs from sender,
\* none addressed to sender, and leaves what was queued as it was.
C19_BroadcastReachesEveryOtherAgent ==
    [][Did("broadcast")
          => LET sender == exchange'.agent
                 others == DOMAIN agents \ {sender}
                 new    == SubSeq(message_queue', Len(message_queue) + 1, Len(message_queue'))
             IN  /\ Len(message_queue') >= Len(message_queue)
                 /\ SubSeq(message_queue', 1, Len(message_queue)) = message_queue
                 /\ Len(new) = Cardinality(others)
                 /\ \A i \in 1..Len(new) :
                       /\ new[i].from = sender
                       /\ new[i].to /= sender
                       /\ new[i].to \in others
                       /\ new[i].message = exchange'.message
                 /\ \A n \in others : \E i \in 1..Len(new) : new[i].to = n]_vars

\* a registered agent broadcast to the two other registered agents
C19_Witness ==
    /\ exchange.kind = "broadcast"
    /\ DOMAIN agents = AgentNames
    /\ Len(message_queue) = 3
    /\ message_queue[2].from = exchange.agent
    /\ message_queue[3].from = exchange.agent
    /\ message_queue[2].to /= message_queue[3].to
    /\ message_queue[1].id = 1

\* where the call first did e, 0 if it never did
FirstIndex(e) ==
    IF \E i \in 1..Len(events) : events[i] = e
    THEN CHOOSE i \in 1..Len(events) : events[i] = e /\ \A j \in 1..(i - 1) : events[j] /= e
    ELSE 0

\* C20: within one scripting-language call the temporary file is created
\* before the child is spawned, and on the timeout path the signal is sent
\* and the child reaped before the temporary file is deleted.
C20_FileBeforeSpawnTeardownBeforeUnlink ==
    req.tool \in ScriptTools
        => /\ FirstIndex("spawn") > 0
                => /\ FirstIndex("tempfile") > 0
                   /\ FirstIndex("tempfile") < FirstIndex("spawn")
           /\ leader.st /= "none" => tempfile /= "none"
           /\ (FirstIndex("signal") > 0 /\ FirstIndex("unlink") > 0)
                => /\ FirstIndex("signal") < FirstIndex("reap")
                   /\ FirstIndex("reap") < FirstIndex("unlink")
           /\ (FirstIndex("signal") > 0 /\ tempfile = "deleted") => leader.st = "reaped"

\* a timed-out Python call that has returned
C20_Witness ==
    /\ pc = "returned"
    /\ req.tool = "PythonExecutor"
    /\ result.timeout
    /\ events = <<"tempfile", "spawn", "signal", "reap", "unlink">>
    /\ tempfile = "deleted"

\* the call was made where the interpreter the tool runs is not on PATH
InterpreterMissing == pc /= "idle" /\ req.tool \in GuestTools /\ ~env.resolvable

\* C21: in the three guest languages a call made while the interpreter cannot
\* be resolved returns an {error} dict without a timeout flag, never waits on a
\* child with a deadline, and leaves no temporary file behind.
C21_MissingInterpreterFailsFast ==
    InterpreterMissing
        => /\ pc = "returned"
           /\ "error" \in result.keys
           /\ result.error /= <<>>
           /\ "timeout" \notin result.keys
           /\ ~result.timeout
           /\ leader.st = "none"
           /\ \A i \in 1..Len(events) : events[i] \notin {"spawn", "signal", "reap"}
           /\ tempfile /= "exists"

\* the first word of the command line the request was built from
LeadingToken == req.command[1]

\* C22: SystemCommand decides on the leading token in a fixed order: a token
\* on the deny-list is Denied, whether or not it is on the allow-list; else a
\* token on the allow-list is Allowed; else the token is permitted when it
\* resolves on PATH and rejected as not found when it does not. A process is
\* spawned only for an allowed or resolvable token that is not denied.
C22_DenyThenAllowThenPath ==
    (req.tool = "SystemCommand" /\ pc /= "idle")
        => /\ LeadingToken \in DANGEROUS_COMMANDS
                => /\ pc = "returned"
                   /\ result = BlockedDict(<<"Command '", LeadingToken,
                                             "' is blacklisted for safety">>)
                   /\ leader.st = "none"
           /\ (LeadingToken \notin DANGEROUS_COMMANDS /\ LeadingToken \in SAFE_COMMANDS)
                => /\ ~result.blocked
                   /\ (result.error /= <<>> => result.error[1] /= "Command not found: ")
           /\ (LeadingToken \notin DANGEROUS_COMMANDS \cup SAFE_COMMANDS /\ ~env.resolvable)
                => /\ pc = "returned"
                   /\ result = ErrorDict(<<"Command not found: ", LeadingToken>>)
                   /\ leader.st = "none"
           /\ (LeadingToken \notin DANGEROUS_COMMANDS \cup SAFE_COMMANDS /\ env.resolvable)
                => ~result.blocked
           /\ leader.st /= "none"
                => /\ LeadingToken \notin DANGEROUS_COMMANDS
                   /\ LeadingToken \in SAFE_COMMANDS \/ env.resolvable

\* a deny-listed program name followed by arguments was refused on a machine
\* where the name resolves
C22_Witness ==
    /\ req.tool = "SystemCommand"
    /\ pc = "returned"
    /\ req.command = <<"rm", "-rf", "/">>
    /\ env.resolvable
    /\ result.blocked
    /\ leader.st = "none"

\* one of the catastrophic strings stands somewhere in the command string
CatastrophicAt(str, i) ==
    \E danger \in dangerous :
       /\ i + Len(danger) - 1 <= Len(str)
       /\ \A j \in 1..Len(danger) : str[i + j - 1] = danger[j]

\* C23: a shell-mode request whose command string contains a catastrophic
\* substring at any position, also behind a shell operator, is denied: the
\* call returns the refusal before it clamps the timeout and without
\* spawning.
C23_CatastrophicSubstringAnywhere ==
    (/\ pc /= "idle"
     /\ req.tool \in ShellTools
     /\ \E i \in 1..Len(Flatten(req.command)) : CatastrophicAt(Flatten(req.command), i))
        => /\ pc = "returned"
           /\ "error" \in result.keys
           /\ result.error = DangerMsg
           /\ leader.st = "none"
           /\ events = <<>>
           /\ deadline = 0

\* `ls;rm -rf /` with a timeout out of range was refused: the substring
\* starts behind the `;`
C23_Witness ==
    /\ pc = "returned"
    /\ req.tool = "BashExecutor"
    /\ req.command = <<"ls;rm", "-rf", "/">>
    /\ ~CatastrophicAt(Flatten(req.command), 1)
    /\ CatastrophicAt(Flatten(req.command), 4)
    /\ req.timeout > MAX_TIMEOUT
    /\ result.error = DangerMsg
    /\ leader.st = "none"

\* C24: every result of search_tools has the shape of the requested level:
\* server and tool alone for name_only, the description added and no schema
\* for name_and_description, and a parameter schema only when the level
\* asked for is full, whatever value was passed as detail_level.
C24_ShapeFollowsDetailLevel ==
    (answer.kind = "search" /\ answer.raised = "none")
        => \A i \in 1..Len(answer.list) :
              LET e == answer.list[i]
              IN  /\ {"server", "tool"} \subseteq e.keys
                  /\ answer.level = "name_only" => e.keys = {"server", "tool"}
                  /\ answer.level = "name_and_description"
                        => /\ e.keys = {"server", "tool", "description"}
                           /\ e.parameters = NoSchema
                  /\ answer.level = "full"
                        => e.keys = {"server", "tool", "description", "parameters", "returns"}
                  /\ "parameters" \in e.keys => answer.level = "full"

\* C25: no discovery call answers from a cache. Whatever was registered and
\* asked before, search_tools, get_server_manifest and get_tool_definition
\* answer from the servers and tools registered when they are called, so a
\* tool registered or replaced after an earlier query shows in the next one,
\* and MCPClient.tool_cache stays empty.
C25_DiscoveryNeverCached ==
    [][/\ tool_cache = <<>> /\ tool_cache' = <<>>
       /\ Asked("definition")
            => LET s == answer'.server
                   n == answer'.tool
                   d == answer'.dict
               IN  IF s \notin DOMAIN servers
                   THEN d.keys = {"error"} /\ d.error = <<"Server not found: ", s>>
                   ELSE IF n \notin DOMAIN servers[s].tools
                   THEN d.keys = {"error"} /\ d.error = <<"Tool not found: ", n>>
                   ELSE /\ "error" \notin d.keys
                        /\ d.name = n
                        /\ d.description = Descriptions[servers[s].tools[n].name]
                        /\ d.parameters.required = servers[s].tools[n].required
       /\ Asked("manifest")
            => LET s == answer'.server
                   m == answer'.dict
               IN  IF s \notin DOMAIN servers
                   THEN m.keys = {"error"}
                   ELSE /\ m.description = servers[s].description
                        /\ {m.tools[i].name : i \in 1..Len(m.tools)} = DOMAIN servers[s].tools
                        /\ Len(m.tools) = Cardinality(DOMAIN servers[s].tools)
       /\ (Asked("search") /\ answer'.raised = "none")
            => /\ PairsOf(answer'.list) = ExpectedPairs(answer'.query, answer'.server)
               /\ \A i \in 1..Len(answer'.list) :
                     LET e == answer'.list[i]
                     IN  "parameters" \in e.keys
                            => e.parameters.required = servers[e.server].tools[e.tool].required]_vars

\* get_tool_definition was asked twice about one tool; the tool was replaced
\* in between and the second answer has the schema of the replacement
C25_Witness ==
    /\ Len(log) = 2
    /\ log[1].kind = "definition"
    /\ log[2].kind = "definition"
    /\ log[1].tool = log[2].tool
    /\ "error" \notin log[1].dict.keys
    /\ "error" \notin log[2].dict.keys
    /\ log[1].dict.parameters.required /= log[2].dict.parameters.required
    /\ answer = log[2]
    /\ tool_cache = <<>>

\* C26: ToolRegistry.execute and MCPClient.call_tool leave the registry's
\* tool map, the client's servers map and every server's tool map as they
\* were, whatever the outcome of the call; a dispatch changes nothing that a
\* later dispatch reads, only what it hands back to its own caller.
C26_DispatchLeavesMapsAlone ==
    [][(Dispatched("registry") \/ Dispatched("mcp"))
          => /\ tools' = tools
             /\ servers' = servers
             /\ \A s \in DOMAIN servers : servers'[s].tools = servers[s].tools
             /\ tool_cache' = tool_cache
             /\ UNCHANGED <<execVars, log, answer, threads, commVars>>]_vars

\* a tool reached through the client refused a command, and the registry and
\* the server still hold their tools
C26_Witness ==
    /\ call.path = "mcp"
    /\ "body" \in Range(call.events)
    /\ call.result = Dict({"error", "blocked"}, DangerMsg)
    /\ call.server \in DOMAIN servers
    /\ call.name \in DOMAIN servers[call.server].tools
    /\ servers[call.server].tools[call.name] = call.tool
    /\ DOMAIN tools = ToolNames

\* the tool map as it was after the k-th change, the empty map of a new
\* registry for k = 0
MapAfter(k) == IF k = 0 THEN <<>> ELSE log[k]

\* the listing a lookup returns for a tool map
ListingOf(lookup, m) ==
    IF lookup = "get_all" THEN {m[n] : n \in DOMAIN m}
    ELSE {Tool_to_openai_format(m[n]) : n \in DOMAIN m}

\* C27: a lookup that enumerates the registry while another thread registers
\* and unregisters completes without raising, and what it returns lists the
\* tool map as it was before or after one of the changes made meanwhile.
C27_ListingSafeWithoutLock ==
    \A t \in Callers :
       threads[t].name \in {"get_all", "get_openai_tools"}
          => /\ threads[t].raised = "none"
             /\ threads[t].pc = "returned"
                   => \E k \in threads[t].from..threads[t].upto :
                         /\ Range(threads[t].listing) = ListingOf(threads[t].name, MapAfter(k))
                         /\ Len(threads[t].listing) = Cardinality(DOMAIN MapAfter(k))

\* C28: a discovery call that names a server which is not registered does
\* not raise: get_server_manifest and get_tool_definition return the
\* not-found error, search_tools returns no results or such an error, and
\* the client is left as it was.
C28_UnknownServerFilterDoesNotRaise ==
    [][\A kind \in {"search", "manifest", "definition"} :
          (Asked(kind) /\ answer'.server /= "" /\ answer'.server \notin DOMAIN servers)
              => /\ answer'.raised = "none"
                 /\ IF kind = "search"
                    THEN \/ answer'.list = <<>> /\ answer'.dict = NoDict
                         \/ answer'.dict.keys = {"error"}
                    ELSE /\ answer'.dict.keys = {"error"}
                         /\ answer'.dict.error = <<"Server not found: ", answer'.server>>
                 /\ servers' = servers
                 /\ tool_cache' = tool_cache]_vars

\* the handlers of a plugin that sit on the manager's hooks
RegisteredHandlers(plugin_id) ==
    {<<plugin_id, h>> : h \in {n \in DOMAIN hooks :
        \E i \in 1..Len(hooks[n]) : hooks[n][i].handler = <<plugin_id, n>>}}

\* the handlers of a plugin the manager registers: those of the hooks it knows
KnownHandlers(plugin_id) ==
    {<<plugin_id, h>> : h \in DOMAIN PluginHooks(plugin_id) \cap AVAILABLE_HOOKS}

\* C29: whatever load_plugin, enable_plugin, disable_plugin, unload_plugin and
\* reload_plugin calls were made, with callbacks that return False or raise,
\* every plugin held in PluginManager.plugins is in state LOADED, ACTIVE or
\* INACTIVE, and the handlers of a plugin are registered on the manager's
\* hooks exactly while the plugin is held.
C29_HeldPluginsAreLiveAndHooked ==
    /\ \A p \in DOMAIN plugins : plugins[p] \in {"loaded", "active", "inactive"}
    /\ \A p \in PluginIds :
          RegisteredHandlers(p) = IF p \in DOMAIN plugins THEN KnownHandlers(p) ELSE {}

\* the step appends an execution record of workflow w
StartsExecution(w) ==
    /\ Len(executions') = Len(executions) + 1
    /\ executions'[Len(executions')].workflow_id = w

\* C30: a schedule trigger starts an execution of a workflow only if the
\* workflow exists and is enabled when the trigger fires, so that none is
\* started once disable_workflow or delete_workflow has returned, and the
\* scheduler loop ends only after stop_scheduler was called.
C30_TriggersRespectDisableAndDelete ==
    [][/\ \A w \in WorkflowIds :
             StartsExecution(w) => w \in DOMAIN workflows /\ workflows[w].enabled
       /\ (loop \in {"check", "pending"} /\ loop' \in {"exited", "died"}) => ~running]_vars

====
